---- MODULE Spec2Model ----
(***************************************************************************)
(* Model of the image-generation gateway of the bot: the Wfx cog           *)
(* (cogs/wfx.py), the multi-server Stable Diffusion client                 *)
(* (lib/stablediffusion/__init__.py) and the ledger operation it uses      *)
(* (utils/database.py).                                                    *)
(*                                                                         *)
(* Every generate invocation is an asyncio task.  A task runs without      *)
(* interruption from one await to the next, so each action below is the    *)
(* code that runs when one await completes, up to the next await.  The     *)
(* value of pc names the await a task is suspended on.                     *)
(*                                                                         *)
(* Spec is the cog as the bot runs it: the tasks of generate.  ClientSpec  *)
(* is the client alone: start() and close(), the tasks of the health       *)
(* checker, and tasks of _api_request, with the event loop's clock.        *)
(* RegistrySpec is the constructor of the client.                          *)
(*                                                                         *)
(* The rest of the bot has a specification of its own for each part:       *)
(* ShutdownSpec for the signal handler and _shutdown (main.py), EngineSpec *)
(* for the TicTacToe engine (lib/tickengine/__init__.py), GamesSpec for    *)
(* the games cog and its views (cogs/games.py), where the engine is seen   *)
(* through what a view reads of it, and EconomySpec for message exp and    *)
(* the daily reward (cogs/economy.py).                                     *)
(***************************************************************************)
EXTENDS Integers, Sequences, FiniteSets, TLC

\* ---------------------------------------------------------------- bounds
NumJobs == 2
NumUsers == 2
NumServers == 2
\* tasks of _start_health_checker created, tasks of _api_request, and the
\* last reading of the event loop's clock
MaxTasks == 2
NumReqs == 1
MaxTime == 1
\* the longest list of urls given to the constructor
MaxUrls == 3
\* the largest row or column make_move is called with (the board ends at 2)
MaxCoord == 3
\* the signals the process receives
MaxSignals == 3
\* invocations of tictactoe that start a game, and button clicks whose
\* callbacks run at the same time
NumGames == 2
NumClicks == 2
\* messages that award exp, invocations of daily, and clicks on reward
\* buttons
NumMessages == 1
NumDailies == 2
NumClaims == 2
\* the users that write messages and invoke daily (the others only click)
NumMembers == 1

Jobs == 1..NumJobs
Users == 1..NumUsers
Servers == 1..NumServers
Tasks == 1..MaxTasks
ShutdownTasks == 1..MaxSignals
GameIds == 1..NumGames
Clicks == 1..NumClicks
Messages == 1..NumMessages
Dailies == 1..NumDailies
Claims == 1..NumClaims
Members == 1..NumMembers
Reqs == 1..NumReqs

\* ------------------------------------------------------- program constants
\* Wfx.__init__: self.generation_cost = 100
generation_cost == 100

\* Balances a requester's ledger document may hold when the cog is loaded.
InitialMoney == {100, 150}

\* Decoded image lists a backend's 200 response can carry ("images" of the
\* txt2img payload, images named 1 and 2); the empty list is a well-formed
\* payload with no image.
Responses == {<< >>, <<1>>, <<2, 1>>}

VARIABLES
    job,           \* per task: the locals of generate and of the calls it makes
    hist,          \* per task: what the task has done so far (history)
    active_users,  \* Wfx.active_users
    money,         \* users collection: money of each user document
    registered,    \* users collection: the users that have a document
    servers,       \* StableDiffusion.servers: ServerInfo of each url
    now,           \* environment: the event loop's clock
    ended,         \* the call that ended last: who called, and what it did
    health_check_task,  \* StableDiffusion._health_check_task (0: None)
    loops,         \* the tasks of _start_health_checker
    caller,        \* the caller of start() and close()
    req,           \* the tasks of _api_request outside generate
    probed,        \* the _health_check that returned last
    base_urls,     \* the argument StableDiffusion was constructed with
    urls,          \* ServerInfo.url of each entry of StableDiffusion.servers
    engine,        \* a TicTacToeEngine object
    move,          \* the make_move call that returned last
    running,       \* DiscordBot.running
    shutdown_tasks,  \* the tasks of _shutdown created by _signal_handler
    cli,           \* the task of cli_shell
    exited,        \* sys.exit(0) was called
    active_games,  \* Games.active_games: the game of each player (0: none)
    games,         \* the invocations of tictactoe, each with game and view
    clicks,        \* the tasks of TicTacToeView.button_callback
    last_start,    \* the tictactoe invocation that was made last
    profile,       \* users collection: exp, level, last_daily of each user
    messages,      \* the tasks of Economy.on_message
    dailies,       \* the invocations of daily, each with its view
    claims,        \* the tasks of RewardButtons._handle_reward_claim
    awards         \* what each user was awarded: rewards and exp (history)

vars ==
    <<job, hist, active_users, money, registered, servers, now,
      ended, health_check_task, loops, caller, req, probed, base_urls,
      urls, engine, move, running, shutdown_tasks, cli, exited,
      active_games, games, clicks, last_start, profile, messages,
      dailies, claims, awards>>

\* ---------------------------------------------------------------- values
\* ServerInfo(url): is_alive = False, last_checked = 0
ServerInfo == [is_alive |-> FALSE, last_checked |-> 0]

\* The locals of a task of generate and of the calls it makes; requester,
\* server and i are 0 when unset.
IdleJob ==
    [pc |-> "idle", requester |-> 0, loading_message |-> FALSE,
     alive_servers |-> << >>, i |-> 0, server |-> 0,
     error |-> "none", images |-> << >>]

\* What a task has done: the outcome of its debit, the balance before it,
\* the credits called and applied, the sum it added to the balance, the
\* outcome of the server selection, its probes and remote calls, the
\* answer of the remote call, the image sent (0: none), the messages sent
\* to the requester, and its removals from active_users.
NoHist ==
    [admitted |-> FALSE, debit |-> "none", balance_before |-> 0,
     credit_calls |-> 0, credits |-> 0, net |-> 0,
     select |-> "none", probes |-> 0, calls |-> 0, remote |-> "none",
     response |-> << >>, delivered |-> 0, reports |-> << >>,
     releases |-> 0, release_errors |-> 0, cancelled |-> FALSE]

\* The record kept of a call that ended: its requester, its history, and
\* whether the requester was in active_users when it ended.
Ended(u, h, ticket) == [requester |-> u, did |-> h, ticket_after |-> ticket]

\* ------------------------------------------------------- the constructor
\* A url is the sequence of its characters.  The constructor takes one
\* url (a str) or a list of urls.
Urls == {<<"a">>, <<"a", "/">>, <<"a", "/", "/">>, <<"b">>, <<"b", "/">>}

BaseUrls ==
    [kind : {"str"}, value : Urls]
        \cup [kind : {"list"},
              value : UNION {[1..n -> Urls] : n \in 0..MaxUrls}]

\* str.rstrip('/')
RECURSIVE rstrip(_)
rstrip(url) ==
    IF url # << >> /\ url[Len(url)] = "/"
    THEN rstrip(SubSeq(url, 1, Len(url) - 1))
    ELSE url

\* Lines 98-101: a str is made a list of one; the url of each entry is
\* the given url without its trailing slashes, in the order given.
ServerUrls(given) ==
    LET list == IF given.kind = "str" THEN <<given.value>> ELSE given.value
    IN  [i \in 1..Len(list) |-> rstrip(list[i])]

\* Before the constructor has run.
NotConstructed == [kind |-> "none", value |-> << >>]

\* The urls the cog is configured with: one for each server, all different.
ConfiguredUrls ==
    [kind |-> "list", value |-> [s \in Servers |-> <<"h", ToString(s), "/">>]]

\* What is recorded of one _health_check: the answer of the server, the
\* value returned, and whether an exception left the function.
NoProbe == [answer |-> "none", result |-> FALSE, raised |-> FALSE]

\* A task of _start_health_checker: none before create_task made it; pc
\* is the await it is suspended on (begin: not yet run); i is the index
\* of the server being probed; must_cancel is set by Task.cancel() until
\* CancelledError is thrown into the task; cancels counts the throws.
NoLoop ==
    [state |-> "none", pc |-> "none", i |-> 0, must_cancel |-> FALSE,
     cancels |-> 0]

NewLoop == [NoLoop EXCEPT !.state = "running", !.pc = "begin"]

\* A task of _api_request: the locals of _get_available_server, and what
\* the call saw and did: the servers alive in the list read at line 156,
\* the answers of its probes, the ServerInfo it wrote after each and the
\* clock at that moment, and how it ended.
IdleReq ==
    [pc |-> "idle", i |-> 0, alive_servers |-> << >>, server |-> 0,
     snapshot |-> {}, answers |-> << >>, wrote |-> << >>, at |-> << >>,
     outcome |-> "none"]

\* ------------------------------------------------- the TicTacToe engine
\* Difficulty: the values of the enum
Difficulties == {"easy", "medium", "hard"}

\* The cells of the board, (row, col), and the order in which the loops
\* "for i in range(3): for j in range(3)" visit them.
Cells == (0..2) \X (0..2)
CellOrder ==
    <<<<0, 0>>, <<0, 1>>, <<0, 2>>, <<1, 0>>, <<1, 1>>, <<1, 2>>,
      <<2, 0>>, <<2, 1>>, <<2, 2>>>>

\* TicTacToeEngine(difficulty): an empty board, X to move, no winner
TicTacToeEngine(difficulty) ==
    [board |-> [c \in Cells |-> " "],
     current_player |-> "X",
     winner |-> "None",
     game_over |-> FALSE,
     difficulty |-> difficulty]

\* No make_move call has been made yet.  A call is "called" when its
\* arguments are chosen and "returned" when make_move has run; before is
\* the engine at the time of the call.
NoMove ==
    [pc |-> "idle", row |-> 0, col |-> 0, returned |-> FALSE,
     before |-> TicTacToeEngine("medium")]

\* No engine is played outside a specification of the engine.
EngineIdle ==
    /\ engine = TicTacToeEngine("medium")
    /\ move = NoMove

\* ------------------------------------------------------------ shutdown
\* _setup_signal_handlers: the signals that have a handler
Signals == {"SIGINT", "SIGTERM"}

\* The commands of cli_shell: quit and exit call _shutdown, the others
\* (here status) return to the prompt.
CliCommands == {"quit", "exit", "status"}

\* A call of _shutdown: not started ("none"), created as a task and not
\* yet run ("created"), suspended in bot.close() ("close") or in the
\* sleep of the finally block ("sleep"), or ended ("returned", "exited");
\* closed tells whether the call got to bot.close().
NoShutdown == [pc |-> "none", signum |-> "none", closed |-> FALSE]

\* _setup_bot: self.running = True; the shell of _initialize_bot is at
\* its prompt; no signal has arrived.
ShutdownIdle ==
    /\ running = TRUE
    /\ shutdown_tasks = [t \in ShutdownTasks |-> NoShutdown]
    /\ cli = [pc |-> "input", closed |-> FALSE]
    /\ exited = FALSE

\* ------------------------------------------------------ the games cog
\* Games.DIFFICULTY_REWARDS
DIFFICULTY_REWARDS ==
    [easy |-> [exp |-> 100, money |-> 50],
     medium |-> [exp |-> 250, money |-> 125],
     hard |-> [exp |-> 500, money |-> 250]]

\* An invocation of tictactoe that has not been made.  pc is the await
\* the invocation is suspended on: ctx.send of the start message
\* ("send"), view.wait() ("wait"), resumed after the view timed out
\* ("woken"), or ended ("done").  game_over and winner are what
\* game.is_game_over() and game.get_winner() return and marks is the
\* number of X on the board; live tells whether the view dispatches
\* clicks.  The rest is history: the $inc and the update_exp applied for
\* the game, whether a callback of the game ended in an exception,
\* whether a click was turned away as "already over" while the reward
\* was being paid, and the game whose entry the invocation deleted after
\* view.wait().
NoGame ==
    [pc |-> "none", player |-> 0, difficulty |-> "none",
     game_over |-> FALSE, winner |-> "None", marks |-> 0, live |-> FALSE,
     money_paid |-> 0, exp_paid |-> 0, raised |-> FALSE,
     late_click |-> FALSE, deleted |-> 0]

\* A task of button_callback that does not run.  pc is the await of
\* _handle_game_rewards the task is suspended on; user_data_exp is
\* user_data['exp'] as read by get_user.
NoClick == [pc |-> "idle", game |-> 0, user_data_exp |-> 0]

\* create_user: default_data.  A timestamp is the clock reading it was
\* taken at; last_daily is << >> for None and <<t>> for the ISO string of
\* the timestamp t.
NewProfile == [exp |-> 0, level |-> 1, last_daily |-> << >>]

\* Games: active_games = {}; nobody has played.
GamesIdle ==
    /\ active_games = [u \in Users |-> 0]
    /\ games = [g \in GameIds |-> NoGame]
    /\ clicks = [k \in Clicks |-> NoClick]
    /\ last_start = [user |-> 0, outcome |-> "none", unfinished |-> FALSE]

\* -------------------------------------------------------- the economy cog
\* Economy.__init__: self.daily_money, self.daily_exp, and
\* self.daily_cooldown = timedelta(days=1); the clock counts days.
daily_money == 500
daily_exp == 1000
daily_cooldown == 1

\* random.randint(*self.exp_range) with exp_range = (5, 15): the two ends
ExpGains == {5, 15}

\* A task of on_message that does not exist.  pc is the await the task is
\* suspended on; user_data_exp is user_data['exp'] as returned by
\* _ensure_user_exists.
NoMessage ==
    [pc |-> "none", author |-> 0, exp_gain |-> 0, user_data_exp |-> 0]

\* An invocation of daily that has not been made.  last_daily is what
\* update_daily_timestamp writes; live tells whether the view dispatches
\* clicks; value is view.value.
NoDaily ==
    [pc |-> "none", author |-> 0, last_daily |-> << >>, live |-> FALSE,
     value |-> FALSE, outcome |-> "none"]

\* A task of _handle_reward_claim that does not exist.
NoClaim ==
    [pc |-> "none", daily |-> 0, is_money |-> FALSE, user_data_exp |-> 0]

\* Nothing was awarded: no reward (the clock readings at which rewards
\* were credited) and no exp.
NoAward == [rewards |-> << >>, exp |-> 0]

\* Economy is loaded; nobody has written or claimed.
EconomyIdle ==
    /\ messages = [m \in Messages |-> NoMessage]
    /\ dailies = [d \in Dailies |-> NoDaily]
    /\ claims = [c \in Claims |-> NoClaim]
    /\ awards = [u \in Users |-> NoAward]

\* The parts of the bot that the image gateway does not touch.
Engine == <<engine, move>>
Shutdown == <<running, shutdown_tasks, cli, exited>>
Play == <<active_games, games, clicks, last_start>>
Economy == <<messages, dailies, claims, awards>>
Apps == <<Engine, Shutdown, Play, Economy, profile>>
AppsInit ==
    /\ EngineIdle
    /\ ShutdownIdle
    /\ GamesIdle
    /\ EconomyIdle
    /\ profile = [u \in Users |-> NewProfile]

\* The caller of start() and close(): the await of close() it is
\* suspended on, and what its last call found.
IdleCaller == [pc |-> "idle", last |-> "none"]

\* StableDiffusion.__init__: no task, nothing called yet.
ClientInit ==
    /\ health_check_task = 0
    /\ loops = [t \in Tasks |-> NoLoop]
    /\ caller = IdleCaller
    /\ req = [r \in Reqs |-> IdleReq]
    /\ probed = NoProbe
    /\ base_urls = ConfiguredUrls
    /\ urls = ServerUrls(ConfiguredUrls)

Init ==
    /\ job = [j \in Jobs |-> IdleJob]
    /\ hist = [j \in Jobs |-> NoHist]
    /\ active_users = {}
    /\ registered \in SUBSET Users
    /\ money \in [Users -> InitialMoney \cup {0}]
    /\ \A u \in Users : u \notin registered <=> money[u] = 0
    /\ servers = [s \in Servers |-> ServerInfo]
    /\ now = 0
    /\ ended = Ended(0, NoHist, FALSE)
    /\ ClientInit
    /\ AppsInit

\* ------------------------------------------------------------ the ledger
\* Database.get_user: the document of the user, None when there is none.
\* The eligibility test of Wfx._check_user_eligibility on that document:
\* not (not user_data or user_data['money'] < self.generation_cost)
HasFunds(u) == u \in registered /\ money[u] >= generation_cost

\* Database.add_money: find_one_and_update with {"$inc": {"money": amount}}
add_money(m, u, amount) == [m EXCEPT ![u] = @ + amount]

\* ---------------------------------------------------------- the admission
NeverInFlight(u) == FALSE

\* ctx.author.id in self.active_users
InFlight(u) == u \in active_users

\* self.active_users.add(ctx.author.id)
Admit(set, u) == set \cup {u}

KeepTicket(set, u) == set

\* self.active_users.remove(ctx.author.id), for a member of the set
Remove(set, u) == set \ {u}

\* ----------------------------------------------------------- the registry
RECURSIVE AliveFrom(_)
\* [s for s in self.servers if s.is_alive], from index k on
AliveFrom(k) ==
    IF k > NumServers THEN << >>
    ELSE IF servers[k].is_alive THEN <<k>> \o AliveFrom(k + 1)
    ELSE AliveFrom(k + 1)

\* The list of line 156 without its filter: every server of the registry.
AllServers == [s \in Servers |-> s]


\* The list of line 156 with its first server entered twice.
FirstTwice ==
    IF AliveFrom(1) = << >> THEN << >>
    ELSE <<AliveFrom(1)[1]>> \o AliveFrom(1)


AliveServers == AliveFrom(1)

\* StableDiffusion._health_check for the answer of the server: True on
\* status 200; every exception (a timeout, a connection error, and the
\* CancelledError of a cancelled task too) is caught by the bare except
\* and gives False.
ProbeAnswers == {"200", "500", "ClientError", "CancelledError"}
HealthCheck(answer) == answer = "200"

\* except: return False (lines 135-136) catches whatever the request
\* raised, CancelledError included: no answer makes _health_check raise.
RaisesCancelled(answer) == answer = "CancelledError"

HealthCheckRaises(answer) == FALSE

\* Line 163: if server.is_alive: alive_servers.append(server)
NeverFound(list, s, alive) == list

Found(list, s, alive) == IF alive THEN Append(list, s) ELSE list

\* Line 161 alone: is_alive is written, last_checked is left as it was.
SetFlagOnly(reg, s, alive) == [reg EXCEPT ![s].is_alive = alive]


\* server.is_alive = ...; server.last_checked = loop.time()
SetAlive(reg, s, alive) ==
    [reg EXCEPT ![s] = [is_alive |-> alive, last_checked |-> now]]

\* ------------------------------------------------------------ exceptions
\* Exceptions a remote call can end with: a network error or timeout, a
\* non-success status (raise_for_status), a payload that is not the
\* expected JSON (response.json, result["images"], b64decode).
RemoteErrors == {"ClientError", "ClientResponseError", "PayloadError"}

CaughtOnlyRuntimeError(e) == e = "RuntimeError"

\* except Exception: every exception but the BaseException CancelledError
CaughtByExcept(e) == e # "CancelledError"

\* What the requester is told by _handle_error for the exception e
\* ("Something went wrong: " + str(error)).
ErrorReport(e) ==
    CASE e = "RuntimeError" -> "NoBackendAvailable"
      [] e = "DatabaseError" -> "LedgerError"
      [] OTHER -> "DispatchFailed"

ShortCompensation == generation_cost - 1

\* The amount credited by the except handler of generate.
Compensation == generation_cost

LastImage(images) == images[Len(images)]

\* images[0] of the decoded list
FirstImage(images) == images[1]

\* ------------------------------------------------------------- messages
\* The text sent to the requester on each path that ends without an
\* image: line 40, line 45, and _handle_error (lines 86-89), whose text
\* ends with str(error).  str of the RuntimeError of line 167 is its
\* message, str of the IndexError of images[0] is Python's; the text of
\* an error of aiohttp or of the database driver is modelled by its name.
ErrorStr(e) ==
    CASE e = "RuntimeError" -> "No Stable Diffusion servers are available"
      [] e = "IndexError" -> "list index out of range"
      [] OTHER -> e

BusyMessage == <<"Please wait for your current generation to finish!">>

FundsMessage ==
    <<"You need ", ToString(generation_cost),
      " money to generate an image!">>

GenericError(e) == <<"Oopsie! Something went wrong">>

HandleError(e) == <<"Oopsie! Something went wrong: ", ErrorStr(e)>>

\* The exceptions the except handler of generate passes to _handle_error.
HandledErrors ==
    RemoteErrors \cup {"RuntimeError", "IndexError", "DatabaseError"}


\* --------------------------------------------------------------- helpers
Requester(j) == job[j].requester

DoneJob == [IdleJob EXCEPT !.pc = "done"]

Say(h, what) == [h EXCEPT !.reports = Append(@, what)]

\* A task ends outside the try statement: nothing is released.
Return(j, h) ==
    /\ job' = [job EXCEPT ![j] = DoneJob]
    /\ hist' = [hist EXCEPT ![j] = NoHist]
    /\ ended' = Ended(Requester(j), h, Requester(j) \in active_users)

\* finally: self.active_users.remove(ctx.author.id), then the task ends.
\* exc is the exception that is propagating ("none" when the try or the
\* handler ended normally).  remove raises KeyError for a user that is not
\* in the set; the KeyError then replaces exc.  An exception that leaves
\* generate is reported by on_command_error, a cancellation is not.
Finally(j, h0, exc) ==
    LET u == Requester(j)
        h == IF exc = "CancelledError" THEN [h0 EXCEPT !.cancelled = TRUE]
             ELSE h0
    IN
    /\ job' = [job EXCEPT ![j] = DoneJob]
    /\ hist' = [hist EXCEPT ![j] = NoHist]
    /\ IF u \in active_users
       THEN /\ active_users' = Remove(active_users, u)
            /\ ended' = Ended(u,
                 LET h1 == [h EXCEPT !.releases = @ + 1] IN
                 IF exc \in {"none", "CancelledError"} THEN h1
                 ELSE Say(h1, ErrorReport(exc)),
                 u \in active_users')
       ELSE /\ active_users' = active_users
            /\ ended' = Ended(u,
                 Say([h EXCEPT !.release_errors = @ + 1], "KeyError"),
                 u \in active_users')

\* An exception e is raised inside the try statement of generate.
\* except Exception: await add_money(+cost) is called; otherwise finally.
Raise(j, h, e) ==
    IF CaughtByExcept(e)
    THEN /\ job' = [job EXCEPT ![j].pc = "credit", ![j].error = e,
                               ![j].alive_servers = << >>, ![j].i = 0,
                               ![j].server = 0]
         /\ hist' = [hist EXCEPT ![j] = [h EXCEPT !.credit_calls = @ + 1]]
         /\ UNCHANGED <<active_users, ended>>
    ELSE Finally(j, h, e)

\* _api_request after _get_available_server returned: session.request
Request(j, h, alive) ==
    \E k \in 1..Len(alive) :
        /\ job' = [job EXCEPT ![j].pc = "remote", ![j].server = alive[k],
                              ![j].alive_servers = << >>, ![j].i = 0]
        /\ hist' = [hist EXCEPT ![j] =
                      [h EXCEPT !.select = "ok", !.calls = @ + 1]]
        /\ UNCHANGED <<active_users, ended>>

\* The end of _get_available_server with the list alive: RuntimeError when
\* it is empty, random.choice(alive) otherwise.
Choose(j, h, alive) ==
    IF alive = << >>
    THEN Raise(j, [h EXCEPT !.select = "failed"], "RuntimeError")
    ELSE Request(j, h, alive)

\* _get_available_server from its first line, called through text2img
\* and _api_request right after the debit returned.
GetAvailableServer(j, h) ==
    LET alive == AliveServers IN
    IF alive = << >> /\ NumServers > 0
    THEN /\ job' = [job EXCEPT ![j].pc = "probe", ![j].i = 1,
                               ![j].alive_servers = << >>]
         /\ hist' = [hist EXCEPT ![j] = h]
         /\ UNCHANGED <<active_users, ended>>
    ELSE Choose(j, h, alive)

\* --------------------------------------------------------------- actions
\* The clock, and the client's tasks outside generate: Wfx never calls
\* start(), so no task of _start_health_checker exists beside generate.
Registry == <<base_urls, urls>>
Env ==
    <<now, health_check_task, loops, caller, req, probed, Registry, Apps>>
Ledger == <<money, registered>>

\* generate is invoked by user u.  Line 186: a prefix command sends the
\* loading message, an interaction is deferred; both are awaited.
generate(j, u, lm) ==
    /\ job[j].pc = "idle"
    /\ job' = [job EXCEPT ![j].pc = "loading", ![j].requester = u,
                          ![j].loading_message = lm]
    /\ UNCHANGED <<hist, active_users, Ledger, servers, Env, ended>>

\* _check_user_eligibility, line 39: the in-flight test.  A user in the
\* set is told to wait (ctx.send is awaited); otherwise get_user is called.
check_active(j) ==
    /\ job[j].pc = "loading"
    /\ job' = [job EXCEPT ![j].pc =
                 IF InFlight(Requester(j)) THEN "busy_send" ELSE "get_user"]
    /\ UNCHANGED <<hist, active_users, Ledger, servers, Env, ended>>

\* Lines 192-194 after _check_user_eligibility returned False.
Rejected(j, h) ==
    IF job[j].loading_message
    THEN /\ job' = [job EXCEPT ![j].pc = "reject_delete"]
         /\ hist' = [hist EXCEPT ![j] = h]
         /\ UNCHANGED ended
    ELSE Return(j, h)

\* Line 40 has been sent: return False.
busy_sent(j) ==
    /\ job[j].pc = "busy_send"
    /\ Rejected(j, Say(hist[j], "AlreadyInFlight"))
    /\ UNCHANGED <<active_users, Ledger, servers, Env>>

\* get_user returns (line 43) or raises a database error, which leaves
\* generate before its try statement.  With enough money the check returns
\* True and generate goes on without an await: active_users.add (line 197)
\* and the call of add_money(-cost) (line 199).
check_funds(j) ==
    /\ job[j].pc = "get_user"
    /\ \/ /\ Return(j, Say(hist[j], "LedgerError"))
          /\ UNCHANGED active_users
       \/ /\ ~HasFunds(Requester(j))
          /\ job' = [job EXCEPT ![j].pc = "funds_send"]
          /\ UNCHANGED <<hist, active_users, ended>>
       \/ /\ HasFunds(Requester(j))
          /\ active_users' = Admit(active_users, Requester(j))
          /\ job' = [job EXCEPT ![j].pc = "debit"]
          /\ hist' = [hist EXCEPT ![j].admitted = TRUE]
          /\ UNCHANGED ended
    /\ UNCHANGED <<Ledger, servers, Env>>

\* Line 45 has been sent: return False.
funds_sent(j) ==
    /\ job[j].pc = "funds_send"
    /\ Rejected(j, Say(hist[j], "InsufficientFunds"))
    /\ UNCHANGED <<active_users, Ledger, servers, Env>>

\* Line 193: the loading message of a rejected call has been deleted.
reject_deleted(j) ==
    /\ job[j].pc = "reject_delete"
    /\ Return(j, hist[j])
    /\ UNCHANGED <<active_users, Ledger, servers, Env>>

\* text2img called before add_money(-cost) has returned (lines 199 and
\* 213 exchanged): the selection starts with no debit applied.
SelectBeforeDebit(j) ==
    /\ job[j].pc = "debit"
    /\ money' = money
    /\ GetAvailableServer(j, hist[j])
    /\ UNCHANGED <<registered, servers, Env>>


\* add_money(-cost) returns (line 199): the debit is applied and text2img
\* starts with _get_available_server; or it raises a database error with
\* nothing applied, which the except handler catches.
debit_done(j) ==
    /\ job[j].pc = "debit"
    /\ \/ /\ money' = add_money(money, Requester(j), -generation_cost)
          /\ GetAvailableServer(j,
                [hist[j] EXCEPT !.debit = "ok",
                                !.balance_before = money[Requester(j)],
                                !.net = @ - generation_cost])
       \/ /\ money' = money
          /\ Raise(j, [hist[j] EXCEPT !.debit = "failed"], "DatabaseError")
    /\ UNCHANGED <<registered, servers, Env>>

\* One _health_check of the loop of _get_available_server ends (lines
\* 160-164) with the answer alive; after the last one the server is chosen.
Probed(j, alive) ==
    LET s == job[j].i
        found == Found(job[j].alive_servers, s, alive)
        h == [hist[j] EXCEPT !.probes = @ + 1]
    IN  /\ servers' = SetAlive(servers, s, alive)
        /\ IF s < NumServers
           THEN /\ job' = [job EXCEPT ![j].i = s + 1,
                                      ![j].alive_servers = found]
                /\ hist' = [hist EXCEPT ![j] = h]
                /\ UNCHANGED <<active_users, ended>>
           ELSE Choose(j, h, found)

probe_done(j) ==
    /\ job[j].pc = "probe"
    /\ \E answer \in ProbeAnswers \ {"CancelledError"} :
          Probed(j, HealthCheck(answer))
    /\ UNCHANGED <<Ledger, Env>>

\* The continuation of generate after text2img returned the decoded list
\* images: lines 215-237.  images[0] raises IndexError on an empty list.
Deliver(j, h, images) ==
    IF images = << >>
    THEN Raise(j, [h EXCEPT !.remote = "empty"], "IndexError")
    ELSE /\ job' = [job EXCEPT ![j].pc =
                      IF job[j].loading_message THEN "image_delete"
                      ELSE "image_send",
                    ![j].images = images]
         /\ hist' = [hist EXCEPT ![j] = h]
         /\ UNCHANGED <<active_users, ended>>

\* A remote call that failed is repeated on a server of the registry
\* instead of being raised to generate (a retry after line 178).
RetryRequest(j) ==
    /\ job[j].pc = "remote"
    /\ Request(j, [hist[j] EXCEPT !.remote = "failed"], AliveServers)
    /\ UNCHANGED <<Ledger, servers, Env>>


\* A failed remote call that marks its server dead (a write of is_alive
\* after line 178).
MarkDeadOnFailure(j) ==
    /\ job[j].pc = "remote"
    /\ \E e \in RemoteErrors :
          Raise(j, [hist[j] EXCEPT !.remote = "failed"], e)
    /\ servers' = SetAlive(servers, job[j].server, FALSE)
    /\ UNCHANGED <<Ledger, Env>>


\* session.request of _api_request ends (lines 177-179, 215): with a 200
\* answer carrying a list of images, or with an exception.
remote_done(j) ==
    /\ job[j].pc = "remote"
    /\ \/ \E r \in Responses :
             Deliver(j, [hist[j] EXCEPT !.remote = "ok", !.response = r], r)
       \/ \E e \in RemoteErrors :
             Raise(j, [hist[j] EXCEPT !.remote = "failed"], e)
    /\ UNCHANGED <<Ledger, servers, Env>>

\* Line 235: the loading message has been deleted; ctx.send of the image.
image_deleted(j) ==
    /\ job[j].pc = "image_delete"
    /\ job' = [job EXCEPT ![j].pc = "image_send"]
    /\ UNCHANGED <<hist, active_users, Ledger, servers, Env, ended>>

\* Line 237: the image has been sent; the try ends and finally runs.
image_sent(j) ==
    /\ job[j].pc = "image_send"
    /\ Finally(j, Say([hist[j] EXCEPT !.delivered = FirstImage(job[j].images)],
                      "Success"), "none")
    /\ UNCHANGED <<Ledger, servers, Env>>

\* add_money(+cost) of line 240 inside a try of its own whose handler
\* passes: the failure of the credit is dropped and line 241 goes on.
SwallowCreditFailure(j) ==
    /\ job[j].pc = "credit"
    /\ money' = money
    /\ job' = [job EXCEPT ![j].pc =
                 IF job[j].loading_message THEN "error_delete"
                 ELSE "error_send"]
    /\ UNCHANGED <<hist, active_users, ended, registered, servers, Env>>


\* Line 240 in the except handler: add_money(+cost) returns, or raises a
\* database error, which leaves the handler through finally.
credit_done(j) ==
    /\ job[j].pc = "credit"
    /\ \/ /\ money' = add_money(money, Requester(j), Compensation)
          /\ job' = [job EXCEPT ![j].pc =
                       IF job[j].loading_message THEN "error_delete"
                       ELSE "error_send"]
          /\ hist' = [hist EXCEPT ![j].credits = @ + 1,
                                  ![j].net = @ + Compensation]
          /\ UNCHANGED <<active_users, ended>>
       \/ /\ money' = money
          /\ Finally(j, hist[j], "DatabaseError")
    /\ UNCHANGED <<registered, servers, Env>>

\* Line 242: the loading message has been deleted; _handle_error is called.
error_deleted(j) ==
    /\ job[j].pc = "error_delete"
    /\ job' = [job EXCEPT ![j].pc = "error_send"]
    /\ UNCHANGED <<hist, active_users, Ledger, servers, Env, ended>>

\* Line 243: _handle_error has sent the message; finally runs.
error_sent(j) ==
    /\ job[j].pc = "error_send"
    /\ Finally(j, Say(hist[j], ErrorReport(job[j].error)), "none")
    /\ UNCHANGED <<Ledger, servers, Env>>

\* The task of generate is cancelled (the loop is shut down) while it is
\* suspended: CancelledError is raised at the await.
\*  - before the try statement the task just ends;
\*  - in _health_check the bare except catches it: the probe answers False
\*    and the task goes on;
\*  - on a ledger call the update may or may not have been applied;
\*  - elsewhere in the try statement or its handler, finally runs.
cancel(j) ==
    LET at == job[j].pc
        h == hist[j]
        u == Requester(j)
    IN
    \/ /\ at \in {"loading", "busy_send", "get_user", "funds_send",
                  "reject_delete"}
       /\ Return(j, [h EXCEPT !.cancelled = TRUE])
       /\ UNCHANGED <<active_users, Ledger, servers, Env>>
    \/ /\ at = "probe"
       /\ Probed(j, HealthCheck("CancelledError"))
       /\ UNCHANGED <<Ledger, Env>>
    \/ /\ at = "debit"
       /\ \/ /\ money' = add_money(money, u, -generation_cost)
             /\ Raise(j, [h EXCEPT !.debit = "ok",
                                   !.balance_before = money[u],
                                   !.net = @ - generation_cost],
                      "CancelledError")
          \/ /\ money' = money
             /\ Raise(j, [h EXCEPT !.debit = "failed"], "CancelledError")
       /\ UNCHANGED <<registered, servers, Env>>
    \/ /\ at = "credit"
       /\ \/ /\ money' = add_money(money, u, Compensation)
             /\ Finally(j, [h EXCEPT !.credits = @ + 1,
                                     !.net = @ + Compensation],
                        "CancelledError")
          \/ /\ money' = money
             /\ Finally(j, h, "CancelledError")
       /\ UNCHANGED <<registered, servers, Env>>
    \/ /\ at \in {"remote", "image_delete", "image_send", "error_delete",
                  "error_send"}
       /\ Raise(j, IF at = "remote" THEN [h EXCEPT !.remote = "cancelled"]
                   ELSE h, "CancelledError")
       /\ UNCHANGED <<Ledger, servers, Env>>

Next ==
    \/ \E j \in Jobs, u \in Users, lm \in BOOLEAN : generate(j, u, lm)
    \/ \E j \in Jobs : check_active(j)
    \/ \E j \in Jobs : busy_sent(j)
    \/ \E j \in Jobs : check_funds(j)
    \/ \E j \in Jobs : funds_sent(j)
    \/ \E j \in Jobs : reject_deleted(j)
    \/ \E j \in Jobs : debit_done(j)
    \/ \E j \in Jobs : probe_done(j)
    \/ \E j \in Jobs : remote_done(j)
    \/ \E j \in Jobs : image_deleted(j)
    \/ \E j \in Jobs : image_sent(j)
    \/ \E j \in Jobs : credit_done(j)
    \/ \E j \in Jobs : error_deleted(j)
    \/ \E j \in Jobs : error_sent(j)
    \/ \E j \in Jobs : cancel(j)

Spec == Init /\ [][Next]_vars


\* ======================================================= the client alone
\* The StableDiffusion client used as a library: a caller that starts and
\* closes it, the tasks of _start_health_checker that start() creates, and
\* tasks that call _api_request (get_models of the models command).  The
\* calls of generate stay idle in this specification.

ProbeLog(answer) ==
    [answer |-> answer,
     result |-> ~HealthCheckRaises(answer) /\ HealthCheck(answer),
     raised |-> HealthCheckRaises(answer)]

RunningLoops == {t \in Tasks : loops[t].state = "running"}

\* The client is constructed; nobody calls generate.
InitClient ==
    /\ job = [j \in Jobs |-> IdleJob]
    /\ hist = [j \in Jobs |-> NoHist]
    /\ active_users = {}
    /\ registered = {}
    /\ money = [u \in Users |-> 0]
    /\ servers = [s \in Servers |-> ServerInfo]
    /\ now = 0
    /\ ended = Ended(0, NoHist, FALSE)
    /\ ClientInit
    /\ AppsInit

Gateway == <<job, hist, active_users, money, registered, ended, Apps>>

\* if self._health_check_task is None (line 186)
AlwaysMissing == TRUE

TaskMissing == health_check_task = 0

\* start(): no await in it.  create_task is called when no task is
\* referenced; the new task has not run yet.
start ==
    /\ caller.pc = "idle"
    /\ IF TaskMissing
       THEN /\ \E t \in Tasks : loops[t].state = "none"
            /\ LET t == CHOOSE t \in Tasks :
                          /\ loops[t].state = "none"
                          /\ \A o \in Tasks : loops[o].state = "none" => t <= o
               IN  /\ loops' = [loops EXCEPT ![t] = NewLoop]
                   /\ health_check_task' = t
            /\ caller' = [caller EXCEPT !.last = "started"]
       ELSE /\ caller' = [caller EXCEPT !.last = "start_again"]
            /\ UNCHANGED <<loops, health_check_task>>
    /\ UNCHANGED <<Gateway, Registry, servers, now, req, probed>>

\* close() from line 248: with no open session it returns, otherwise it
\* awaits session.close().
CloseSession(c) ==
    \/ caller' = [c EXCEPT !.pc = "idle"]
    \/ caller' = [c EXCEPT !.pc = "session_close"]

\* close() is called: with a task referenced, Task.cancel() and then
\* await self._health_check_task (lines 241-244).
close ==
    /\ caller.pc = "idle"
    /\ IF health_check_task # 0
       THEN /\ loops' = [loops EXCEPT ![health_check_task].must_cancel =
                            loops[health_check_task].state = "running"]
            /\ caller' = [pc |-> "await_task", last |-> "closing"]
       ELSE /\ CloseSession([caller EXCEPT !.last = "close_no_task"])
            /\ UNCHANGED loops
    /\ UNCHANGED <<Gateway, Registry, servers, now, req, probed,
                   health_check_task>>

\* The awaited task is done: CancelledError is passed (lines 245-246)
\* and the reference is dropped (line 247).
close_task_done ==
    /\ caller.pc = "await_task"
    /\ loops[health_check_task].state = "done"
    /\ health_check_task' = 0
    /\ CloseSession([caller EXCEPT !.last = "closed"])
    /\ UNCHANGED <<Gateway, Registry, servers, now, req, probed, loops>>

\* session.close() returned (lines 249-250).
close_session_done ==
    /\ caller.pc = "session_close"
    /\ caller' = [caller EXCEPT !.pc = "idle"]
    /\ UNCHANGED <<Gateway, Registry, servers, now, req, probed, loops,
                   health_check_task>>

\* The task t ends: CancelledError left _start_health_checker.
LoopCancelled(t) ==
    loops' = [loops EXCEPT ![t] =
                [NoLoop EXCEPT !.state = "done",
                               !.cancels = loops[t].cancels + 1]]

\* The for statement of _start_health_checker starts (line 141): the
\* first _health_check is awaited, or with no server the sleep.
LoopRound(t, l) ==
    loops' = [loops EXCEPT ![t] =
                IF NumServers > 0 THEN [l EXCEPT !.pc = "probe", !.i = 1]
                ELSE [l EXCEPT !.pc = "sleep", !.i = 0]]

\* The task t runs for the first time; a task cancelled before that
\* never enters the coroutine.
health_checker_begin(t) ==
    /\ loops[t].state = "running"
    /\ loops[t].pc = "begin"
    /\ IF loops[t].must_cancel THEN LoopCancelled(t)
       ELSE LoopRound(t, loops[t])
    /\ UNCHANGED <<Gateway, Registry, servers, now, req, probed, caller,
                   health_check_task>>

\* await self._health_check(server) of line 142 ends in the task t.  A
\* pending cancellation is thrown into the request.  When _health_check
\* returns, is_alive and last_checked are written (lines 142-143) and the
\* next server is probed, or after the last one the sleep starts.
health_checker_probed(t) ==
    LET l == loops[t]
        s == l.i
        after == [l EXCEPT !.must_cancel = FALSE,
                           !.cancels = IF l.must_cancel THEN @ + 1 ELSE @]
    IN
    /\ l.state = "running"
    /\ l.pc = "probe"
    /\ \E answer \in IF l.must_cancel THEN {"CancelledError"}
                     ELSE ProbeAnswers \ {"CancelledError"} :
          /\ probed' = ProbeLog(answer)
          /\ IF HealthCheckRaises(answer)
             THEN /\ loops' = [loops EXCEPT ![t] =
                                 [NoLoop EXCEPT !.state = "done",
                                                !.cancels = after.cancels]]
                  /\ UNCHANGED servers
             ELSE /\ servers' = SetAlive(servers, s, HealthCheck(answer))
                  /\ loops' = [loops EXCEPT ![t] =
                                 IF s < NumServers
                                 THEN [after EXCEPT !.i = s + 1]
                                 ELSE [after EXCEPT !.pc = "sleep", !.i = 0]]
    /\ UNCHANGED <<Gateway, Registry, now, req, caller, health_check_task>>

\* await asyncio.sleep(...) of line 144 ends in the task t: the next round
\* starts, or a pending cancellation leaves the while statement.
health_checker_slept(t) ==
    /\ loops[t].state = "running"
    /\ loops[t].pc = "sleep"
    /\ IF loops[t].must_cancel THEN LoopCancelled(t)
       ELSE LoopRound(t, loops[t])
    /\ UNCHANGED <<Gateway, Registry, servers, now, req, probed, caller,
                   health_check_task>>

\* A second round of probes when the first found no server (the loop of
\* lines 160-164 run again instead of line 167).
ApiSecondRound(r, q, alive) ==
    IF alive = << >> /\ Len(q.answers) = NumServers
    THEN req' = [req EXCEPT ![r] = [q EXCEPT !.pc = "probe", !.i = 1]]
    ELSE IF alive = << >>
    THEN req' = [req EXCEPT ![r] =
                   [q EXCEPT !.pc = "done", !.i = 0,
                             !.outcome = "RuntimeError"]]
    ELSE \E k \in 1..Len(alive) :
            req' = [req EXCEPT ![r] =
                      [q EXCEPT !.pc = "remote", !.i = 0,
                                !.alive_servers = << >>,
                                !.server = alive[k]]]


\* The end of _get_available_server in the task r with the list alive
\* (lines 166-169), and the request of _api_request on the server chosen.
ApiChoose(r, q, alive) ==
    IF alive = << >>
    THEN req' = [req EXCEPT ![r] =
                   [q EXCEPT !.pc = "done", !.i = 0,
                             !.outcome = "RuntimeError"]]
    ELSE \E k \in 1..Len(alive) :
            req' = [req EXCEPT ![r] =
                      [q EXCEPT !.pc = "remote", !.i = 0,
                                !.alive_servers = << >>,
                                !.server = alive[k]]]

\* _api_request is called (get_models, line 261 of wfx.py): the list of
\* line 156 is read; with no server alive the first probe is awaited.
api_request(r) ==
    LET alive == AliveServers
        q == [IdleReq EXCEPT !.snapshot =
                 {s \in Servers : servers[s].is_alive}]
    IN
    /\ req[r].pc \in {"idle", "done"}
    /\ IF alive = << >> /\ NumServers > 0
       THEN req' = [req EXCEPT ![r] = [q EXCEPT !.pc = "probe", !.i = 1]]
       ELSE ApiChoose(r, q, alive)
    /\ UNCHANGED <<Gateway, Registry, servers, now, probed, caller, loops,
                   health_check_task>>

\* One _health_check of lines 160-164 ends in the task r with answer.
ApiProbed(r, answer) ==
    LET s == req[r].i
        alive == HealthCheck(answer)
        reg == SetAlive(servers, s, alive)
        q == [req[r] EXCEPT
                !.alive_servers = Found(@, s, alive),
                !.answers = Append(@, answer),
                !.wrote = Append(@, reg[s]),
                !.at = Append(@, now)]
    IN
    /\ probed' = ProbeLog(answer)
    /\ IF HealthCheckRaises(answer)
       THEN /\ req' = [req EXCEPT ![r] =
                         [req[r] EXCEPT !.pc = "done", !.i = 0,
                                        !.outcome = answer]]
            /\ UNCHANGED servers
       ELSE /\ servers' = reg
            /\ IF s < NumServers
               THEN req' = [req EXCEPT ![r] = [q EXCEPT !.i = s + 1]]
               ELSE ApiChoose(r, q, q.alive_servers)

api_probed(r) ==
    /\ req[r].pc = "probe"
    /\ \E answer \in ProbeAnswers \ {"CancelledError"} : ApiProbed(r, answer)
    /\ UNCHANGED <<Gateway, Registry, now, caller, loops, health_check_task>>

\* The request of line 177 ends: the json of the response is returned,
\* or the request, raise_for_status or json() raised.
api_responded(r) ==
    /\ req[r].pc = "remote"
    /\ \/ req' = [req EXCEPT ![r].pc = "done", ![r].outcome = "ok"]
       \/ req' = [req EXCEPT ![r].pc = "done", ![r].outcome = "failed"]
    /\ UNCHANGED <<Gateway, Registry, servers, now, probed, caller, loops,
                   health_check_task>>

\* The task r is cancelled: in _health_check the cancellation is an
\* answer like another, on the request it ends the task.
api_cancel(r) ==
    \/ /\ req[r].pc = "probe"
       /\ ApiProbed(r, "CancelledError")
       /\ UNCHANGED <<Gateway, Registry, now, caller, loops, health_check_task>>
    \/ /\ req[r].pc = "remote"
       /\ req' = [req EXCEPT ![r].pc = "done", ![r].outcome = "cancelled"]
       /\ UNCHANGED <<Gateway, Registry, servers, now, probed, caller, loops,
                      health_check_task>>

\* The event loop's clock advances.
tick ==
    /\ now < MaxTime
    /\ now' = now + 1
    /\ UNCHANGED <<Gateway, Registry, servers, req, probed, caller, loops,
                   health_check_task>>

ClientNext ==
    \/ start
    \/ close
    \/ close_task_done
    \/ close_session_done
    \/ \E t \in Tasks : health_checker_begin(t)
    \/ \E t \in Tasks : health_checker_probed(t)
    \/ \E t \in Tasks : health_checker_slept(t)
    \/ \E r \in Reqs : api_request(r)
    \/ \E r \in Reqs : api_probed(r)
    \/ \E r \in Reqs : api_responded(r)
    \/ \E r \in Reqs : api_cancel(r)
    \/ tick

ClientSpec == InitClient /\ [][ClientNext]_vars



\* ======================================================== the constructor
\* Nothing is constructed yet.
InitRegistry ==
    /\ job = [j \in Jobs |-> IdleJob]
    /\ hist = [j \in Jobs |-> NoHist]
    /\ active_users = {}
    /\ registered = {}
    /\ money = [u \in Users |-> 0]
    /\ now = 0
    /\ ended = Ended(0, NoHist, FALSE)
    /\ health_check_task = 0
    /\ loops = [t \in Tasks |-> NoLoop]
    /\ caller = IdleCaller
    /\ req = [r \in Reqs |-> IdleReq]
    /\ probed = NoProbe
    /\ base_urls = NotConstructed
    /\ urls = << >>
    /\ servers = << >>
    /\ AppsInit

\* StableDiffusion(given): self.servers gets one ServerInfo for each url
\* given, not alive and never checked (lines 98-101); no task, no session.
construct(given) ==
    /\ base_urls = NotConstructed
    /\ base_urls' = given
    /\ urls' = ServerUrls(given)
    /\ servers' = [s \in 1..Len(ServerUrls(given)) |-> ServerInfo]
    /\ UNCHANGED <<Gateway, now, health_check_task, loops, caller, req,
                   probed>>

RegistryNext == \E given \in BaseUrls : construct(given)

RegistrySpec == InitRegistry /\ [][RegistryNext]_vars


\* ================================================== the TicTacToe engine
\* The image gateway and its client, constructed and idle.
ImagesIdle ==
    /\ job = [j \in Jobs |-> IdleJob]
    /\ hist = [j \in Jobs |-> NoHist]
    /\ active_users = {}
    /\ registered = {}
    /\ money = [u \in Users |-> 0]
    /\ servers = [s \in Servers |-> ServerInfo]
    /\ now = 0
    /\ ended = Ended(0, NoHist, FALSE)
    /\ ClientInit

Images ==
    <<job, hist, active_users, money, registered, ended, servers, now,
      health_check_task, loops, caller, req, probed, base_urls, urls>>

\* What a call of make_move leaves alone.
EngineFrame == <<Images, Shutdown, Play, Economy, profile>>

\* self.computer = 'O', self.human = 'X'
computer == "O"
human == "X"

\* The arguments make_move is called with: the cells of the board and one
\* coordinate off the board on either side.
Coords == -1..MaxCoord

\* The rows, the columns and the two diagonals that _check_winner_for tests.
Lines ==
    {{<<i, j>> : j \in 0..2} : i \in 0..2}
    \cup {{<<i, j>> : i \in 0..2} : j \in 0..2}
    \cup {{<<i, i>> : i \in 0..2}, {<<i, 2 - i>> : i \in 0..2}}

check_winner_for(board, player) ==
    \E line \in Lines : \A c \in line : board[c] = player

is_board_full(board) == \A c \in Cells : board[c] # " "

EmptyCells(board) == {c \in Cells : board[c] = " "}

Count(board, player) == Cardinality({c \in Cells : board[c] = player})

\* 'O' if self.current_player == 'X' else 'X'
Opponent(player) == IF player = "X" THEN "O" ELSE "X"

\* A mutant of Playable: a finished game still takes marks.
PlayableWhenOver(e, row, col) ==
    /\ row \in 0..2
    /\ col \in 0..2
    /\ e.board[<<row, col>>] = " "

\* _make_single_move: not self.game_over, and
\* 0 <= row < 3 and 0 <= col < 3 and self.board[row][col] == ' '
Playable(e, row, col) ==
    /\ ~e.game_over
    /\ row \in 0..2
    /\ col \in 0..2
    /\ e.board[<<row, col>>] = " "

\* A mutant of Settle: the full board is tested before the line.
SettleFullFirst(e, board) ==
    IF is_board_full(board)
    THEN [e EXCEPT !.board = board, !.game_over = TRUE]
    ELSE IF check_winner_for(board, e.current_player)
    THEN [e EXCEPT !.board = board, !.winner = e.current_player,
                   !.game_over = TRUE]
    ELSE [e EXCEPT !.board = board,
                   !.current_player = Opponent(e.current_player)]

\* _make_single_move, after the mark is placed (lines 37-43): the mover
\* wins, or the board is full, or the turn passes.
Settle(e, board) ==
    IF check_winner_for(board, e.current_player)
    THEN [e EXCEPT !.board = board, !.winner = e.current_player,
                   !.game_over = TRUE]
    ELSE IF is_board_full(board)
    THEN [e EXCEPT !.board = board, !.game_over = TRUE]
    ELSE [e EXCEPT !.board = board,
                   !.current_player = Opponent(e.current_player)]

\* _make_single_move(row, col): the engine after the call and what the
\* call returns.
make_single_move(e, row, col) ==
    IF Playable(e, row, col)
    THEN [engine |->
              Settle(e, [e.board EXCEPT ![<<row, col>>] = e.current_player]),
          returned |-> TRUE]
    ELSE [engine |-> e, returned |-> FALSE]

Max(S) == CHOOSE x \in S : \A y \in S : y <= x
Min(S) == CHOOSE x \in S : \A y \in S : x <= y

\* _minimax(depth, is_maximizing) on self.board; depth is not used.
RECURSIVE minimax(_, _)
minimax(board, is_maximizing) ==
    IF check_winner_for(board, computer) THEN 1
    ELSE IF check_winner_for(board, human) THEN -1
    ELSE IF is_board_full(board) THEN 0
    ELSE LET mark == IF is_maximizing THEN computer ELSE human
             scores ==
                 {minimax([board EXCEPT ![c] = mark], ~is_maximizing) :
                      c \in EmptyCells(board)}
         IN  IF is_maximizing THEN Max(scores) ELSE Min(scores)

\* A mutant of BestMove: the first empty cell, whatever its score.
FirstEmpty(board) ==
    CellOrder[Min({k \in 1..9 : board[CellOrder[k]] = " "})]

\* _make_smart_move, lines 70-82: the first empty cell, in the order of the
\* loops, whose score is the largest (score > best_score is strict).
BestMove(board) ==
    LET empty == {k \in 1..9 : board[CellOrder[k]] = " "}
        score ==
            [k \in empty |->
                 minimax([board EXCEPT ![CellOrder[k]] = computer], FALSE)]
        best_score == Max({score[k] : k \in empty})
    IN  CellOrder[Min({k \in empty : score[k] = best_score})]

\* _make_smart_move: if best_move: self._make_single_move(*best_move)
make_smart_move(e) ==
    IF EmptyCells(e.board) = {}
    THEN e
    ELSE LET best_move == BestMove(e.board)
         IN  make_single_move(e, best_move[1], best_move[2]).engine

\* _make_random_move: the engines random.choice(empty_cells) can lead to.
make_random_move(e) ==
    IF EmptyCells(e.board) = {}
    THEN {e}
    ELSE {make_single_move(e, c[1], c[2]).engine : c \in EmptyCells(e.board)}

\* A mutant of computer_move: the computer does not answer.
NoAnswer(e) == {e}

\* _computer_move: random for EASY, smart or random for MEDIUM
\* (random.random() < 0.5), smart otherwise.
computer_move(e) ==
    IF e.difficulty = "easy" THEN make_random_move(e)
    ELSE IF e.difficulty = "medium"
    THEN {make_smart_move(e)} \cup make_random_move(e)
    ELSE {make_smart_move(e)}

\* make_move(row, col): the engines the call can lead to, each with what
\* the call returns.
make_move(e, row, col) ==
    LET single == make_single_move(e, row, col)
    IN  IF ~single.returned THEN {[engine |-> e, returned |-> FALSE]}
        ELSE IF ~single.engine.game_over
        THEN {[engine |-> answered, returned |-> TRUE] :
                  answered \in computer_move(single.engine)}
        ELSE {single}

\* What a view reads of its engine, is_game_over() and get_winner(), with
\* the number of X on the board.
Reading(e) ==
    [game_over |-> e.game_over, winner |-> e.winner,
     marks |-> Count(e.board, "X")]

\* make_move as the games cog sees it: what a call can return and what
\* the view reads afterwards, given what it read before.  A call that
\* returns True places one X; a line needs three marks, the fifth X fills
\* the board, and a HARD engine is not beaten.  Under EngineSpec every
\* call of make_move is one of these (MoveOutcomesCoverEngine).
MoveOutcomes(reading, difficulty) ==
    LET marks == reading.marks + 1
        readings ==
            {r \in [game_over : BOOLEAN, winner : {"X", "O", "None"},
                    marks : {marks}] :
                /\ ~reading.game_over
                /\ r.game_over <=> (r.winner # "None" \/ marks = 5)
                /\ r.winner # "None" => marks >= 3
                /\ r.winner = "X" => difficulty # "hard"
                /\ r.winner = "O" => marks <= 4}
    IN  {[returned |-> FALSE, reading |-> reading]}
        \cup {[returned |-> TRUE, reading |-> r] : r \in readings}

\* An engine of some difficulty is constructed.
InitEngine ==
    /\ ImagesIdle
    /\ ShutdownIdle
    /\ GamesIdle
    /\ EconomyIdle
    /\ profile = [u \in Users |-> NewProfile]
    /\ \E difficulty \in Difficulties : engine = TicTacToeEngine(difficulty)
    /\ move = NoMove

\* The caller chooses the arguments of its next call of make_move.
call_make_move(row, col) ==
    /\ move.pc # "called"
    /\ move' = [pc |-> "called", row |-> row, col |-> col,
                returned |-> FALSE, before |-> engine]
    /\ UNCHANGED <<engine, EngineFrame>>

\* make_move(row, col) runs, from its first line to its return.
make_move_returns ==
    /\ move.pc = "called"
    /\ \E result \in make_move(engine, move.row, move.col) :
           /\ engine' = result.engine
           /\ move' = [move EXCEPT !.pc = "returned",
                                   !.returned = result.returned]
    /\ UNCHANGED EngineFrame

EngineNext ==
    \/ \E row \in Coords, col \in Coords : call_make_move(row, col)
    \/ make_move_returns

EngineSpec == InitEngine /\ [][EngineNext]_vars


\* Every call of make_move on the engine is a call as the games cog sees
\* it.
MoveOutcomesCoverEngine ==
    move.pc = "returned" =>
        [returned |-> move.returned, reading |-> Reading(engine)]
            \in MoveOutcomes(Reading(move.before), engine.difficulty)

\* ================================================================ shutdown
\* The bot is constructed and ready, the shell is at its prompt.
InitShutdown ==
    /\ ImagesIdle
    /\ EngineIdle
    /\ ShutdownIdle
    /\ GamesIdle
    /\ EconomyIdle
    /\ profile = [u \in Users |-> NewProfile]

\* What the shutdown code leaves alone.
ShutdownFrame == <<Images, Engine, Play, Economy, profile>>

\* asyncio.create_task: the first task that does not exist yet
NextShutdownTask ==
    CHOOSE t \in ShutdownTasks :
        /\ shutdown_tasks[t].pc = "none"
        /\ \A earlier \in 1..(t - 1) : shutdown_tasks[earlier].pc # "none"

\* _signal_handler(signum, frame): self.running = False, then
\* asyncio.create_task(self._shutdown())
signal_handler(signum) ==
    /\ ~exited
    /\ \E t \in ShutdownTasks : shutdown_tasks[t].pc = "none"
    /\ running' = FALSE
    /\ shutdown_tasks' =
           [shutdown_tasks EXCEPT ![NextShutdownTask] =
                [pc |-> "created", signum |-> signum, closed |-> FALSE]]
    /\ UNCHANGED <<cli, exited, ShutdownFrame>>

\* The task of _shutdown runs from its first line: it returns if
\* not self.running; otherwise it clears the flag and calls bot.close().
shutdown_begin(t) ==
    /\ ~exited
    /\ shutdown_tasks[t].pc = "created"
    /\ IF ~running
       THEN /\ shutdown_tasks' =
                   [shutdown_tasks EXCEPT ![t].pc = "returned"]
            /\ UNCHANGED running
       ELSE /\ running' = FALSE
            /\ shutdown_tasks' =
                   [shutdown_tasks EXCEPT ![t].pc = "close",
                                          ![t].closed = TRUE]
    /\ UNCHANGED <<cli, exited, ShutdownFrame>>

\* cli_shell reads a command.  quit and exit await _shutdown(), which
\* returns at once if not self.running and calls bot.close() otherwise;
\* any other command returns to the loop test "while self.running".
cli_command(cmd) ==
    /\ ~exited
    /\ cli.pc = "input"
    /\ IF cmd \in {"quit", "exit"} /\ running
       THEN /\ running' = FALSE
            /\ cli' = [pc |-> "close", closed |-> TRUE]
       ELSE /\ cli' = [cli EXCEPT
                           !.pc = IF running THEN "input" ELSE "stopped"]
            /\ UNCHANGED running
    /\ UNCHANGED <<shutdown_tasks, exited, ShutdownFrame>>

\* The calls of _shutdown: the one awaited by the shell (0) and the tasks.
ShutdownCalls == {0} \cup ShutdownTasks
ShutdownPc(c) == IF c = 0 THEN cli.pc ELSE shutdown_tasks[c].pc

\* bot.close() returns or raises an Exception: the finally block sleeps.
shutdown_closed(c) ==
    /\ ~exited
    /\ ShutdownPc(c) = "close"
    /\ IF c = 0
       THEN cli' = [cli EXCEPT !.pc = "sleep"] /\ UNCHANGED shutdown_tasks
       ELSE /\ shutdown_tasks' = [shutdown_tasks EXCEPT ![c].pc = "sleep"]
            /\ UNCHANGED cli
    /\ UNCHANGED <<running, exited, ShutdownFrame>>

\* asyncio.sleep(0.5) returns: sys.exit(0)
shutdown_slept(c) ==
    /\ ~exited
    /\ ShutdownPc(c) = "sleep"
    /\ IF c = 0
       THEN cli' = [cli EXCEPT !.pc = "exited"] /\ UNCHANGED shutdown_tasks
       ELSE /\ shutdown_tasks' = [shutdown_tasks EXCEPT ![c].pc = "exited"]
            /\ UNCHANGED cli
    /\ exited' = TRUE
    /\ UNCHANGED <<running, ShutdownFrame>>

ShutdownNext ==
    \/ \E signum \in Signals : signal_handler(signum)
    \/ \E t \in ShutdownTasks : shutdown_begin(t)
    \/ \E cmd \in CliCommands : cli_command(cmd)
    \/ \E c \in ShutdownCalls : shutdown_closed(c)
    \/ \E c \in ShutdownCalls : shutdown_slept(c)

ShutdownSpec == InitShutdown /\ [][ShutdownNext]_vars


\* ============================================================ the games cog
\* Database.update_exp, lines 105-110: the level of a total of exp points;
\* int(exp_needed * 1.5) is the floor of three halves.
RECURSIVE LevelFrom(_, _, _)
LevelFrom(exp, level, exp_needed) ==
    IF exp >= exp_needed
    THEN LevelFrom(exp, level + 1, (exp_needed * 3) \div 2)
    ELSE level

\* Database.update_exp: update_one with {"$set": {"exp": exp, "level":
\* level}}; it matches no document of a user that has none.
update_exp(p, u, exp) ==
    IF u \in registered
    THEN [p EXCEPT ![u].exp = exp, ![u].level = LevelFrom(exp, 1, 100)]
    ELSE p

\* The image gateway without the users collection.
Media ==
    <<job, hist, active_users, ended, servers, now, health_check_task,
      loops, caller, req, probed, base_urls, urls>>

\* What the games cog leaves alone.
GamesFrame == <<Media, Engine, Shutdown, Economy>>

\* The cog is loaded, nobody plays; some users have a document in the
\* users collection (Economy creates it on their first message), others
\* have none.
InitGames ==
    /\ job = [j \in Jobs |-> IdleJob]
    /\ hist = [j \in Jobs |-> NoHist]
    /\ active_users = {}
    /\ registered \in SUBSET Users
    /\ money = [u \in Users |-> 0]
    /\ servers = [s \in Servers |-> ServerInfo]
    /\ now = 0
    /\ ended = Ended(0, NoHist, FALSE)
    /\ ClientInit
    /\ EngineIdle
    /\ ShutdownIdle
    /\ GamesIdle
    /\ EconomyIdle
    /\ profile = [u \in Users |-> NewProfile]

\* The invocation that starts the next game, and the task of the next click.
NextGame ==
    CHOOSE g \in GameIds :
        /\ games[g].pc = "none"
        /\ \A earlier \in 1..(g - 1) : games[earlier].pc # "none"
NextClick ==
    CHOOSE k \in Clicks :
        /\ clicks[k].pc = "idle"
        /\ \A earlier \in 1..(k - 1) : clicks[earlier].pc # "idle"

\* if self.player_id in Games.active_games: del ...
Delete(entries, u) == [entries EXCEPT ![u] = 0]

\* A game that was started, is not over and has not expired; and whether
\* a user has one.
Unfinished(g) == games[g].pc \in {"send", "wait"} /\ ~games[g].game_over
HasUnfinished(u) ==
    \E g \in GameIds : Unfinished(g) /\ games[g].player = u

\* Some callback of the game is suspended in _handle_game_rewards.
Paying(g) == \E k \in Clicks : clicks[k].pc # "idle" /\ clicks[k].game = g

\* tictactoe(ctx, difficulty), lines 139-155: rejected if the author has
\* an entry in active_games, refused if the difficulty is not one of the
\* enum; otherwise game and view are created and the entry is written,
\* and the invocation awaits ctx.send of the start message.
tictactoe(u, difficulty) ==
    /\ \E g \in GameIds : games[g].pc = "none"
    /\ IF active_games[u] # 0
       THEN /\ last_start' = [user |-> u, outcome |-> "rejected",
                            unfinished |-> HasUnfinished(u)]
            /\ UNCHANGED <<active_games, games>>
       ELSE IF difficulty \notin Difficulties
       THEN /\ last_start' = [user |-> u, outcome |-> "invalid",
                            unfinished |-> HasUnfinished(u)]
            /\ UNCHANGED <<active_games, games>>
       ELSE /\ games' = [games EXCEPT ![NextGame] =
                             [NoGame EXCEPT !.pc = "send", !.player = u,
                                            !.difficulty = difficulty]]
            /\ active_games' = [active_games EXCEPT ![u] = NextGame]
            /\ last_start' = [user |-> u, outcome |-> "started",
                            unfinished |-> HasUnfinished(u)]
    /\ UNCHANGED <<clicks, Ledger, profile, GamesFrame>>

\* ctx.send returns: the view dispatches clicks and its timeout runs; the
\* invocation awaits view.wait().
start_sent(g) ==
    /\ games[g].pc = "send"
    /\ games' = [games EXCEPT ![g].pc = "wait", ![g].live = TRUE]
    /\ UNCHANGED <<active_games, clicks, last_start, Ledger, profile,
                   GamesFrame>>

\* button_callback, lines 39-96, for a click of user u on a button of the
\* view of g.  A stranger and a click on a finished game are turned away;
\* otherwise make_move runs.  If X won, the callback awaits
\* _handle_game_rewards, suspended in add_money; if the game ended
\* otherwise the entry of the player is deleted; the callback ends with
\* its answer to the interaction.
button_callback(g, u) ==
    /\ games[g].live
    /\ \E k \in Clicks : clicks[k].pc = "idle"
    /\ IF u # games[g].player
       THEN UNCHANGED <<games, clicks, active_games>>
       ELSE IF games[g].game_over
       THEN /\ games' = [games EXCEPT ![g].late_click = @ \/ Paying(g)]
            /\ UNCHANGED <<clicks, active_games>>
       ELSE \E result \in MoveOutcomes([game_over |-> games[g].game_over,
                                        winner |-> games[g].winner,
                                        marks |-> games[g].marks],
                                       games[g].difficulty) :
                LET played ==
                        [games[g] EXCEPT
                             !.game_over = result.reading.game_over,
                             !.winner = result.reading.winner,
                             !.marks = result.reading.marks]
                IN  IF ~result.returned
                    THEN UNCHANGED <<games, clicks, active_games>>
                    ELSE /\ games' = [games EXCEPT ![g] = played]
                         /\ IF played.game_over /\ played.winner = "X"
                            THEN /\ clicks' =
                                        [clicks EXCEPT ![NextClick] =
                                             [pc |-> "add_money",
                                              game |-> g,
                                              user_data_exp |-> 0]]
                                 /\ UNCHANGED active_games
                            ELSE /\ active_games' =
                                        IF played.game_over
                                        THEN Delete(active_games, u)
                                        ELSE active_games
                                 /\ UNCHANGED clicks
    /\ UNCHANGED <<last_start, Ledger, profile, GamesFrame>>

\* _handle_game_rewards, line 189: add_money returns the new balance, or
\* raises TypeError on result["money"] when find_one_and_update matched no
\* document; the exception ends the callback.
game_add_money_done(k) ==
    LET g == clicks[k].game
        u == games[g].player
        rewards == DIFFICULTY_REWARDS[games[g].difficulty]
    IN  /\ clicks[k].pc = "add_money"
        /\ IF u \in registered
           THEN /\ money' = add_money(money, u, rewards.money)
                /\ games' = [games EXCEPT ![g].money_paid = @ + 1]
                /\ clicks' = [clicks EXCEPT ![k].pc = "get_user"]
           ELSE /\ games' = [games EXCEPT ![g].raised = TRUE]
                /\ clicks' = [clicks EXCEPT ![k] = NoClick]
                /\ UNCHANGED money
        /\ UNCHANGED <<registered, active_games, last_start, profile,
                       GamesFrame>>

\* line 191: get_user returns the document; line 192 adds the reward to
\* its exp; update_exp is called and awaits update_one.
game_get_user_done(k) ==
    LET g == clicks[k].game
        u == games[g].player
    IN  /\ clicks[k].pc = "get_user"
        /\ clicks' = [clicks EXCEPT ![k].pc = "update_one",
                                    ![k].user_data_exp = profile[u].exp]
        /\ UNCHANGED <<games, active_games, last_start, Ledger, profile,
                       GamesFrame>>

\* update_exp, lines 113-116: update_one writes exp and level; update_exp
\* then awaits get_user.
game_update_one_done(k) ==
    LET g == clicks[k].game
        u == games[g].player
        rewards == DIFFICULTY_REWARDS[games[g].difficulty]
    IN  /\ clicks[k].pc = "update_one"
        /\ profile' =
               update_exp(profile, u, clicks[k].user_data_exp + rewards.exp)
        /\ games' = [games EXCEPT ![g].exp_paid = @ + 1]
        /\ clicks' = [clicks EXCEPT ![k].pc = "reload"]
        /\ UNCHANGED <<active_games, last_start, Ledger, GamesFrame>>

\* update_exp and _handle_game_rewards return; button_callback, lines
\* 80-91: the buttons are disabled, the entry of the player is deleted and
\* the callback ends with edit_message.
game_rewards_returned(k) ==
    LET g == clicks[k].game
        u == games[g].player
    IN  /\ clicks[k].pc = "reload"
        /\ active_games' = Delete(active_games, u)
        /\ clicks' = [clicks EXCEPT ![k] = NoClick]
        /\ UNCHANGED <<games, last_start, Ledger, profile, GamesFrame>>

\* The timeout of the view (60 seconds without a click) fires: the view
\* stops dispatching and view.wait() is done.
view_timeout(g) ==
    /\ games[g].live
    /\ games' = [games EXCEPT ![g].live = FALSE, ![g].pc = "woken"]
    /\ UNCHANGED <<active_games, clicks, last_start, Ledger, profile,
                   GamesFrame>>

\* tictactoe, lines 165-168, after view.wait(): if the author has an
\* entry it is deleted (and the expiry message sent if the game is not
\* over).
tictactoe_resumed(g) ==
    LET u == games[g].player
    IN  /\ games[g].pc = "woken"
        /\ games' = [games EXCEPT ![g].pc = "done",
                                  ![g].deleted = active_games[u]]
        /\ active_games' = Delete(active_games, u)
        /\ UNCHANGED <<clicks, last_start, Ledger, profile, GamesFrame>>

GamesNext ==
    \/ \E u \in Users, difficulty \in Difficulties \cup {"extreme"} :
           tictactoe(u, difficulty)
    \/ \E g \in GameIds : start_sent(g)
    \/ \E g \in GameIds, u \in Users : button_callback(g, u)
    \/ \E k \in Clicks : game_add_money_done(k)
    \/ \E k \in Clicks : game_get_user_done(k)
    \/ \E k \in Clicks : game_update_one_done(k)
    \/ \E k \in Clicks : game_rewards_returned(k)
    \/ \E g \in GameIds : view_timeout(g)
    \/ \E g \in GameIds : tictactoe_resumed(g)

GamesSpec == InitGames /\ [][GamesNext]_vars


\* ========================================================== the economy cog
\* What the economy cog leaves alone (the clock apart).
EconomyFrame ==
    <<job, hist, active_users, ended, servers, health_check_task, loops,
      caller, req, probed, base_urls, urls, Engine, Shutdown, Play>>

\* Economy is loaded; some members have a document already.
InitEconomy ==
    /\ job = [j \in Jobs |-> IdleJob]
    /\ hist = [j \in Jobs |-> NoHist]
    /\ active_users = {}
    /\ registered \in SUBSET (Members \cap Users)
    /\ money = [u \in Users |-> 0]
    /\ servers = [s \in Servers |-> ServerInfo]
    /\ now = 0
    /\ ended = Ended(0, NoHist, FALSE)
    /\ ClientInit
    /\ EngineIdle
    /\ ShutdownIdle
    /\ GamesIdle
    /\ EconomyIdle
    /\ profile = [u \in Users |-> NewProfile]

\* The next task of each kind.
NextMessage ==
    CHOOSE m \in Messages :
        /\ messages[m].pc = "none"
        /\ \A earlier \in 1..(m - 1) : messages[earlier].pc # "none"
NextDaily ==
    CHOOSE d \in Dailies :
        /\ dailies[d].pc = "none"
        /\ \A earlier \in 1..(d - 1) : dailies[earlier].pc # "none"
NextClaim ==
    CHOOSE c \in Claims :
        /\ claims[c].pc = "none"
        /\ \A earlier \in 1..(c - 1) : claims[earlier].pc # "none"

\* Database.create_user: update_one with $setOnInsert and upsert=True; a
\* document that exists is left as it is.
create_user(p, u) ==
    IF u \in registered THEN p ELSE [p EXCEPT ![u] = NewProfile]

\* datetime.utcnow().isoformat() and datetime.fromisoformat
isoformat(t) == <<t>>
fromisoformat(string) == string[1]

\* _check_daily_cooldown, lines 147-160: can_claim for the last_daily of
\* the document, at the clock reading t.
CanClaim(last_daily, t) ==
    \/ last_daily = << >>
    \/ t - fromisoformat(last_daily) >= daily_cooldown

\* ------------------------------------------------------------ on_message
\* on_message, lines 187-191: the author is not a bot; exp_gain is drawn
\* and the task awaits get_user in _ensure_user_exists.
on_message(u, exp_gain) ==
    /\ \E m \in Messages : messages[m].pc = "none"
    /\ messages' = [messages EXCEPT ![NextMessage] =
                        [pc |-> "get_user", author |-> u,
                         exp_gain |-> exp_gain, user_data_exp |-> 0]]
    /\ UNCHANGED <<dailies, claims, awards, profile, Ledger, now,
                   EconomyFrame>>

\* _ensure_user_exists: get_user returns the document, and line 192-193
\* call update_exp with its exp plus the gain; or it returns None and
\* create_user is awaited.
message_get_user_done(m) ==
    LET u == messages[m].author
    IN  /\ messages[m].pc = "get_user"
        /\ messages' =
               IF u \in registered
               THEN [messages EXCEPT ![m].pc = "update_one",
                                     ![m].user_data_exp = profile[u].exp]
               ELSE [messages EXCEPT ![m].pc = "create_user"]
        /\ UNCHANGED <<dailies, claims, awards, profile, Ledger, now,
                       EconomyFrame>>

\* create_user returns; get_user is awaited again.
message_create_user_done(m) ==
    LET u == messages[m].author
    IN  /\ messages[m].pc = "create_user"
        /\ profile' = create_user(profile, u)
        /\ registered' = registered \cup {u}
        /\ messages' = [messages EXCEPT ![m].pc = "get_user"]
        /\ UNCHANGED <<dailies, claims, awards, money, now, EconomyFrame>>

\* update_exp: update_one writes the new total; get_user is awaited.
message_update_one_done(m) ==
    LET u == messages[m].author
    IN  /\ messages[m].pc = "update_one"
        /\ profile' =
               update_exp(profile, u,
                          messages[m].user_data_exp + messages[m].exp_gain)
        /\ awards' = [awards EXCEPT ![u].exp = @ + messages[m].exp_gain]
        /\ messages' = [messages EXCEPT ![m].pc = "reload"]
        /\ UNCHANGED <<dailies, claims, Ledger, now, EconomyFrame>>

\* update_exp returns the document; _handle_level_up ends the task.
message_done(m) ==
    /\ messages[m].pc = "reload"
    /\ messages' = [messages EXCEPT ![m].pc = "done"]
    /\ UNCHANGED <<dailies, claims, awards, profile, Ledger, now,
                   EconomyFrame>>

\* ----------------------------------------------------------------- daily
\* daily, line 301: _check_daily_cooldown awaits get_user in
\* _ensure_user_exists.
daily(u) ==
    /\ \E d \in Dailies : dailies[d].pc = "none"
    /\ dailies' = [dailies EXCEPT ![NextDaily] =
                       [NoDaily EXCEPT !.pc = "get_user", !.author = u]]
    /\ UNCHANGED <<messages, claims, awards, profile, Ledger, now,
                   EconomyFrame>>

\* get_user returns None (create_user is awaited), or the document:
\* _check_daily_cooldown compares its last_daily with utcnow(); daily
\* replies with the time to wait, or creates the view and sends it.
daily_get_user_done(d) ==
    LET u == dailies[d].author
        last_daily == profile[u].last_daily
    IN  /\ dailies[d].pc = "get_user"
        /\ dailies' =
               IF u \notin registered
               THEN [dailies EXCEPT ![d].pc = "create_user"]
               ELSE IF CanClaim(last_daily, now)
               THEN [dailies EXCEPT ![d].pc = "send"]
               ELSE [dailies EXCEPT ![d].pc = "done",
                                    ![d].outcome = "cooldown"]
        /\ UNCHANGED <<messages, claims, awards, profile, Ledger, now,
                       EconomyFrame>>

daily_create_user_done(d) ==
    LET u == dailies[d].author
    IN  /\ dailies[d].pc = "create_user"
        /\ profile' = create_user(profile, u)
        /\ registered' = registered \cup {u}
        /\ dailies' = [dailies EXCEPT ![d].pc = "get_user"]
        /\ UNCHANGED <<messages, claims, awards, money, now, EconomyFrame>>

\* ctx.send returns: the view dispatches clicks; daily awaits view.wait().
daily_sent(d) ==
    /\ dailies[d].pc = "send"
    /\ dailies' = [dailies EXCEPT ![d].pc = "wait", ![d].live = TRUE]
    /\ UNCHANGED <<messages, claims, awards, profile, Ledger, now,
                   EconomyFrame>>

\* The timeout of the view (30 seconds) fires: view.wait() is done.
daily_view_timeout(d) ==
    /\ dailies[d].live
    /\ dailies' = [dailies EXCEPT ![d].pc = "woken", ![d].live = FALSE]
    /\ UNCHANGED <<messages, claims, awards, profile, Ledger, now,
                   EconomyFrame>>

\* daily, lines 320-324, after view.wait(): if view.value,
\* update_daily_timestamp takes utcnow() and awaits update_one; otherwise
\* the message is edited to say the reward expired.
daily_resumed(d) ==
    /\ dailies[d].pc = "woken"
    /\ dailies' =
           IF dailies[d].value
           THEN [dailies EXCEPT ![d].pc = "update_one",
                                ![d].last_daily = isoformat(now)]
           ELSE [dailies EXCEPT ![d].pc = "done", ![d].outcome = "expired"]
    /\ UNCHANGED <<messages, claims, awards, profile, Ledger, now,
                   EconomyFrame>>

\* update_daily_timestamp: update_one sets last_daily.
daily_timestamp_done(d) ==
    LET u == dailies[d].author
    IN  /\ dailies[d].pc = "update_one"
        /\ profile' = [profile EXCEPT ![u].last_daily = dailies[d].last_daily]
        /\ dailies' = [dailies EXCEPT ![d].pc = "done",
                                      ![d].outcome = "claimed"]
        /\ UNCHANGED <<messages, claims, awards, Ledger, now, EconomyFrame>>

\* ------------------------------------------------------ the reward buttons
\* _handle_reward_claim, lines 244-266, for a click of user u on the money
\* or the exp button of the view of d: a stranger is turned away; the
\* task awaits add_money, or get_user.
reward_click(d, u, is_money) ==
    /\ dailies[d].live
    /\ \E c \in Claims : claims[c].pc = "none"
    /\ claims' =
           IF u # dailies[d].author
           THEN claims
           ELSE [claims EXCEPT ![NextClaim] =
                     [pc |-> IF is_money THEN "add_money" ELSE "get_user",
                      daily |-> d, is_money |-> is_money,
                      user_data_exp |-> 0]]
    /\ UNCHANGED <<messages, dailies, awards, profile, Ledger, now,
                   EconomyFrame>>

\* add_money returns the new balance; edit_message is awaited.
claim_add_money_done(c) ==
    LET u == dailies[claims[c].daily].author
    IN  /\ claims[c].pc = "add_money"
        /\ money' = add_money(money, u, daily_money)
        /\ awards' = [awards EXCEPT ![u].rewards = Append(@, now)]
        /\ claims' = [claims EXCEPT ![c].pc = "edit"]
        /\ UNCHANGED <<messages, dailies, profile, registered, now,
                       EconomyFrame>>

\* get_user returns the document; update_exp is called with its exp plus
\* daily_exp.
claim_get_user_done(c) ==
    LET u == dailies[claims[c].daily].author
    IN  /\ claims[c].pc = "get_user"
        /\ claims' = [claims EXCEPT ![c].pc = "update_one",
                                    ![c].user_data_exp = profile[u].exp]
        /\ UNCHANGED <<messages, dailies, awards, profile, Ledger, now,
                       EconomyFrame>>

\* update_exp: update_one writes the new total; get_user is awaited.
claim_update_one_done(c) ==
    LET u == dailies[claims[c].daily].author
    IN  /\ claims[c].pc = "update_one"
        /\ profile' =
               update_exp(profile, u, claims[c].user_data_exp + daily_exp)
        /\ awards' = [awards EXCEPT ![u].rewards = Append(@, now),
                                    ![u].exp = @ + daily_exp]
        /\ claims' = [claims EXCEPT ![c].pc = "reload"]
        /\ UNCHANGED <<messages, dailies, Ledger, now, EconomyFrame>>

\* update_exp returns the document; edit_message is awaited.
claim_reloaded(c) ==
    /\ claims[c].pc = "reload"
    /\ claims' = [claims EXCEPT ![c].pc = "edit"]
    /\ UNCHANGED <<messages, dailies, awards, profile, Ledger, now,
                   EconomyFrame>>

\* edit_message returns: self.value = True and self.stop(), which ends
\* view.wait() unless the view has stopped or timed out already.
claim_edited(c) ==
    LET d == claims[c].daily
    IN  /\ claims[c].pc = "edit"
        /\ claims' = [claims EXCEPT ![c].pc = "done"]
        /\ dailies' =
               IF dailies[d].live
               THEN [dailies EXCEPT ![d].value = TRUE, ![d].live = FALSE,
                                    ![d].pc = "woken"]
               ELSE [dailies EXCEPT ![d].value = TRUE]
        /\ UNCHANGED <<messages, awards, profile, Ledger, now, EconomyFrame>>

\* A day passes on the clock of datetime.utcnow().
day_passes ==
    /\ now < MaxTime
    /\ now' = now + 1
    /\ UNCHANGED <<messages, dailies, claims, awards, profile, Ledger,
                   EconomyFrame>>

EconomyNext ==
    \/ \E u \in Members \cap Users, exp_gain \in ExpGains :
           on_message(u, exp_gain)
    \/ \E m \in Messages : message_get_user_done(m)
    \/ \E m \in Messages : message_create_user_done(m)
    \/ \E m \in Messages : message_update_one_done(m)
    \/ \E m \in Messages : message_done(m)
    \/ \E u \in Members \cap Users : daily(u)
    \/ \E d \in Dailies : daily_get_user_done(d)
    \/ \E d \in Dailies : daily_create_user_done(d)
    \/ \E d \in Dailies : daily_sent(d)
    \/ \E d \in Dailies : daily_view_timeout(d)
    \/ \E d \in Dailies : daily_resumed(d)
    \/ \E d \in Dailies : daily_timestamp_done(d)
    \/ \E d \in Dailies, u \in Users, is_money \in BOOLEAN :
           reward_click(d, u, is_money)
    \/ \E c \in Claims : claim_add_money_done(c)
    \/ \E c \in Claims : claim_get_user_done(c)
    \/ \E c \in Claims : claim_update_one_done(c)
    \/ \E c \in Claims : claim_reloaded(c)
    \/ \E c \in Claims : claim_edited(c)
    \/ day_passes

EconomySpec == InitEconomy /\ [][EconomyNext]_vars


\* ================================================================ claims
Last == ended.did

\* The call that ended last had its debit applied and then failed in the
\* dispatch: no server was found, or the remote call failed (an exception
\* of the request, or a payload without an image).
SelectFailed == Last.debit = "ok" /\ Last.select = "failed"
RemoteFailed == Last.debit = "ok" /\ Last.remote \in {"failed", "empty"}

\* C1: at any time at most one call of a requester is admitted (between
\* active_users.add and active_users.remove): two calls of one requester
\* are never both admitted.
C1_SingleFlight ==
    \A j, k \in Jobs :
        (j # k /\ hist[j].admitted /\ hist[k].admitted)
            => Requester(j) # Requester(k)

\* C2: a call whose debit was applied and for which no server was found
\* (after the on-demand probes) issues one credit; when the call ends the
\* requester is not in active_users; once the credit is applied the call's
\* debit and credit cancel (the balance is the one before the debit), no
\* remote call was made, and, unless the task is cancelled meanwhile, the
\* requester is told NoBackendAvailable.
C2_NoBackendRoundTrip ==
    SelectFailed =>
        /\ Last.credit_calls = 1
        /\ Last.credits <= 1
        /\ Last.calls = 0
        /\ ~ended.ticket_after
        /\ Last.credits = 1 => Last.net = 0
        /\ (Last.credits = 1 /\ ~Last.cancelled)
               => (Last.reports # << >> /\ Last.reports[1] = "NoBackendAvailable")
        /\ Last.reports # << >> => Last.reports[1] \in {"NoBackendAvailable", "LedgerError", "KeyError"}

\* C2 witness: balance 100, cost 100, every probe fails: the call ends
\* with NoBackendAvailable, balance 100, requester not in active_users.
C2_Witness ==
    /\ SelectFailed
    /\ Last.reports = <<"NoBackendAvailable">>
    /\ Last.probes = NumServers
    /\ Last.balance_before = 100
    /\ money[ended.requester] = 100
    /\ ended.requester \notin active_users

\* C3: a call whose debit was applied and whose remote call failed issues
\* exactly one credit; when the call ends the requester is not in
\* active_users; once the credit is applied the debit and the credit
\* cancel, and, unless the task is cancelled meanwhile, the requester is
\* told DispatchFailed.
C3_DispatchFailedRoundTrip ==
    RemoteFailed =>
        /\ Last.credit_calls = 1
        /\ Last.credits <= 1
        /\ Last.calls = 1
        /\ ~ended.ticket_after
        /\ Last.credits = 1 => Last.net = 0
        /\ (Last.credits = 1 /\ ~Last.cancelled)
               => (Last.reports # << >> /\ Last.reports[1] = "DispatchFailed")

C3_Witness ==
    /\ Last.debit = "ok"
    /\ Last.remote = "failed"
    /\ Last.reports = <<"DispatchFailed">>
    /\ Last.credits = 1
    /\ money[ended.requester] = Last.balance_before
    /\ ended.requester \notin active_users

\* C4: a call cancelled while suspended on the remote call, its debit
\* applied, has been credited the cost (and released) when it ends.
C4_CancelCompensates ==
    (Last.debit = "ok" /\ Last.remote = "cancelled")
        => (Last.credits = 1 /\ Last.net = 0 /\ ~ended.ticket_after)

\* C5: a credit is applied to a call only if the debit of that call was
\* applied, and no call ends with a positive net effect on the balance
\* (stated for the calls that are not cancelled).
C5_CreditOnlyAfterDebit ==
    ~Last.cancelled =>
        /\ Last.credits > 0 => Last.debit = "ok"
        /\ Last.net <= 0

C7_TicketDestroyed ==
    Last.admitted => ~ended.ticket_after

C7_Witness ==
    /\ Last.admitted
    /\ Last.cancelled
    /\ Last.remote = "cancelled"
    /\ ended.requester \notin active_users

\* C8: every admitted call removes its requester from active_users
\* exactly once, and remove is never attempted for a requester that is
\* not in the set (stated for the calls that are not cancelled).
C8_ReleaseOnce ==
    (Last.admitted /\ ~Last.cancelled)
        => (Last.releases = 1 /\ Last.release_errors = 0)

\* A step of the task j.
Steps(j) == job'[j] # job[j] \/ hist'[j] # hist[j]

\* C9: a call that finds its requester in active_users at the in-flight
\* test goes on to the AlreadyInFlight message, and from the test to its
\* end it changes neither active_users, nor a balance, nor a server entry;
\* it ends with no debit, credit, probe or remote call.
C9_AlreadyInFlight ==
    [][\A j \in Jobs :
         /\ (job[j].pc = "loading" /\ job'[j].pc \notin {"loading", "done"}
                /\ Requester(j) \in active_users)
               => job'[j].pc = "busy_send"
         /\ (job[j].pc = "busy_send" /\ Steps(j))
               => /\ UNCHANGED <<active_users, money, registered, servers>>
                  /\ job'[j].pc \in {"reject_delete", "done"}
                  /\ job'[j].pc = "done" =>
                       /\ ended'.did.debit = "none"
                       /\ ended'.did.credit_calls = 0
                       /\ ended'.did.select = "none"
                       /\ ended'.did.probes = 0
                       /\ ended'.did.calls = 0
                       /\ ~ended'.did.admitted
                       /\ ended'.did.reports \in {<< >>, <<"AlreadyInFlight">>}
       ]_vars

\* C9 witness: the call ended with AlreadyInFlight and the ticket of the
\* requester's running call is still there.
C9_Witness ==
    /\ Last.reports = <<"AlreadyInFlight">>
    /\ ended.requester \in active_users
    /\ \E j \in Jobs : Requester(j) = ended.requester /\ hist[j].admitted

\* C10: a call that reports InsufficientFunds made no debit, selected no
\* server and made no remote call, and its requester is not in
\* active_users when it ends.
C10_InsufficientFunds ==
    (Last.reports # << >> /\ Last.reports[1] = "InsufficientFunds") =>
        /\ Last.debit = "none"
        /\ Last.select = "none"
        /\ Last.calls = 0
        /\ ~ended.ticket_after


\* C11: in every call the admission (active_users.add) precedes the debit,
\* and the debit has returned before _get_available_server or the remote
\* call starts: a task that is debited, or is probing, selecting or calling
\* a server, has been admitted, and one that is probing, selecting or
\* calling a server has its debit applied.  The same holds of the call
\* that ended last.
Ordered(h) ==
    /\ h.debit # "none" => h.admitted
    /\ (h.select # "none" \/ h.probes > 0 \/ h.calls > 0
          \/ h.remote # "none")
          => h.admitted /\ h.debit = "ok"

C11_AdmitDebitDispatch ==
    /\ \A j \in Jobs :
         /\ Ordered(hist[j])
         /\ job[j].pc = "debit" => hist[j].admitted /\ hist[j].debit = "none"
         /\ job[j].pc \in {"probe", "remote"}
              => hist[j].admitted /\ hist[j].debit = "ok"
    /\ Ordered(Last)

\* A task is suspended on the remote call, admitted and debited.
C11_Witness ==
    \E j \in Jobs :
        /\ job[j].pc = "remote"
        /\ hist[j].admitted
        /\ hist[j].debit = "ok"
        /\ hist[j].calls = 1
        /\ money[Requester(j)] \in {0, 50}


\* C15: a call of generate makes at most one remote call, on the one
\* server selected; when that call failed the exception is held by
\* generate's handler (it has been raised to the caller of text2img) and
\* the task neither probes nor calls a server again.
C15_OneRemoteCall ==
    /\ \A j \in Jobs :
         /\ hist[j].calls <= 1
         /\ job[j].pc = "remote"
              => /\ hist[j].calls = 1
                 /\ job[j].server \in Servers
                 /\ hist[j].remote = "none"
         /\ hist[j].remote # "none" => hist[j].calls = 1
         /\ hist[j].remote = "failed"
              => /\ job[j].pc \in {"credit", "error_delete", "error_send"}
                 /\ job[j].error \in RemoteErrors
    /\ Last.calls <= 1
    /\ Last.remote # "none" => Last.calls = 1

\* The remote call of a task failed while every server of the registry
\* is marked alive: the task is in the handler, with one call made.
C15_Witness ==
    \E j \in Jobs :
        /\ hist[j].remote = "failed"
        /\ hist[j].calls = 1
        /\ job[j].pc = "credit"
        /\ \A s \in Servers : servers[s].is_alive


\* C12: when the list read at line 156 holds a server that is alive,
\* _get_available_server probes nothing, does not fail, and returns a
\* server that was alive in that list, whatever the health checker writes
\* before or after.
C12_AliveSnapshotSelected ==
    \A r \in Reqs :
        req[r].snapshot # {}
            => /\ req[r].pc \in {"remote", "done"}
               /\ req[r].server \in req[r].snapshot
               /\ req[r].answers = << >>
               /\ req[r].outcome # "RuntimeError"

\* One of two servers was alive when the list was read and it was
\* chosen; the health checker is running and has marked it dead since.
C12_Witness ==
    \E r \in Reqs :
        /\ req[r].pc = "remote"
        /\ req[r].snapshot = {req[r].server}
        /\ RunningLoops # {}
        /\ ~servers[req[r].server].is_alive

\* C13: when no server was alive in the list read at line 156 and a server
\* answered 200 to the probe of lines 160-164, _get_available_server does
\* not fail and returns a server whose probe answered 200.
C13_ReprobeSelected ==
    \A r \in Reqs :
        (/\ req[r].snapshot = {}
         /\ Len(req[r].answers) = NumServers
         /\ \E s \in Servers : req[r].answers[s] = "200")
            => /\ req[r].pc \in {"remote", "done"}
               /\ req[r].outcome # "RuntimeError"
               /\ req[r].server \in Servers
               /\ req[r].answers[req[r].server] = "200"

\* No server was alive, the first probe failed, the second answered 200,
\* and the request goes to the second server.
C13_Witness ==
    \E r \in Reqs :
        /\ req[r].snapshot = {}
        /\ req[r].answers = <<"ClientError", "200">>
        /\ req[r].pc = "remote"
        /\ req[r].server = 2

C16_CancelledLoopExits ==
    \A t \in Tasks : loops[t].cancels > 0 => loops[t].state = "done"

\* C17: after any sequence of start() and close() calls at most one task
\* of _start_health_checker is running, and it is the one referenced by
\* _health_check_task; with no task referenced none is running.
C17_OneLoop ==
    /\ Cardinality(RunningLoops) <= 1
    /\ RunningLoops \subseteq {health_check_task}
    /\ caller.pc = "idle" /\ health_check_task # 0
          => RunningLoops = {health_check_task}

\* start, close, start and start again: the first task is done, the
\* second is the one task running.
C17_Witness ==
    /\ caller.last = "start_again"
    /\ loops[1].state = "done"
    /\ loops[2].state = "running"
    /\ health_check_task = 2

\* C18: _health_check returns True when the server answered 200, False on
\* every other answer (another status, a connection error or timeout, a
\* cancellation), and no exception leaves it.
C18_ProbeNeverRaises ==
    probed.answer # "none"
        => /\ ~probed.raised
           /\ probed.result <=> probed.answer = "200"

\* A probe of the health checker ended by a connection error returned
\* False, and the task went on to the next server.
C18_Witness ==
    /\ probed = [answer |-> "ClientError", result |-> FALSE, raised |-> FALSE]
    /\ \E t \in Tasks : loops[t].pc = "probe" /\ loops[t].i = 2
    /\ ~servers[1].is_alive


\* C19: while a call of generate is being served, a task of
\* _start_health_checker is running beside it (so that the is_alive flags
\* the selection reads are at most one interval old).
C19_LoopRunsWhileServing ==
    (\E j \in Jobs : job[j].pc \notin {"idle", "done"}) => RunningLoops # {}

\* C20: a call cancelled at shutdown whose debit was applied has either
\* sent its image or been credited the cost when it ends.
C20_ShutdownCompensates ==
    (Last.cancelled /\ Last.debit = "ok")
        => (Last.delivered # 0 \/ Last.credits >= 1)


\* The awaits of generate at which a message of rejection or failure is
\* being sent, the outcome the path stands for, and the text sent.
Sending == {"busy_send", "funds_send", "error_send"}

Outcome(j) ==
    CASE job[j].pc = "busy_send" -> "AlreadyInFlight"
      [] job[j].pc = "funds_send" -> "InsufficientFunds"
      [] OTHER -> ErrorReport(job[j].error)

Message(j) ==
    CASE job[j].pc = "busy_send" -> BusyMessage
      [] job[j].pc = "funds_send" -> FundsMessage
      [] OTHER -> HandleError(job[j].error)

\* Every outcome with a text that reports it.
Reportable ==
    {<<"AlreadyInFlight", BusyMessage>>, <<"InsufficientFunds", FundsMessage>>}
        \cup {<<ErrorReport(e), HandleError(e)>> : e \in HandledErrors}

\* C21: the text a call sends for its rejection or failure is the text of
\* no other outcome: AlreadyInFlight, InsufficientFunds, NoBackendAvailable
\* and DispatchFailed (and a ledger failure) can be told apart by the
\* requester, and no server available is not told as missing money.
C21_DistinctOutcomes ==
    \A j \in Jobs :
        job[j].pc \in Sending
            => /\ \A p \in Reportable :
                     p[1] # Outcome(j) => p[2] # Message(j)
               /\ <<Outcome(j), Message(j)>> \in Reportable
               /\ job[j].error = "RuntimeError" => Message(j) # FundsMessage

\* One call is about to tell NoBackendAvailable while another is about to
\* tell InsufficientFunds.
C21_Witness ==
    \E j, k \in Jobs :
        /\ job[j].pc = "error_send"
        /\ job[j].error = "RuntimeError"
        /\ job[k].pc = "funds_send"
        /\ Message(j) # Message(k)


\* C22: a call that has ended (and was not cancelled) has told its
\* requester exactly one outcome: the image or one failure.
C22_ExactlyOneOutcome ==
    (ended.requester # 0 /\ ~Last.cancelled) => Len(Last.reports) = 1


\* C25: the money of every user is at least 0 in every reachable state.
C25_BalanceNonNegative == \A u \in Users : money[u] >= 0


\* C23: no two entries of the registry have the same url.
C23_UniqueAddresses ==
    \A i, k \in 1..Len(urls) : i # k => urls[i] # urls[k]


\* The number of places of the list that hold the server s.
Places(list, s) == Cardinality({k \in 1..Len(list) : list[k] = s})

C26_ConcurrentProbes ==
    \A t \in Tasks :
        (loops[t].state = "running" /\ loops[t].pc = "probe")
            => \A s \in Servers : s <= loops[t].i

\* C27: a call of _get_available_server that read a list with an alive
\* server probes nothing; one that read an empty list probes the servers
\* one after the other, each once, writes the entry of the server probed
\* and of no other, and decides after the last: it has made NumServers
\* probes when it has decided and never more.
C27_ProbeOnce ==
    /\ [](\A r \in Reqs :
            /\ req[r].snapshot # {} => req[r].answers = << >>
            /\ Len(req[r].answers) <= NumServers
            /\ req[r].pc = "probe"
                  => /\ req[r].snapshot = {}
                     /\ req[r].i = Len(req[r].answers) + 1
            /\ (req[r].snapshot = {} /\ req[r].pc \in {"remote", "done"})
                  => Len(req[r].answers) = NumServers)
    /\ [][\A r \in Reqs :
            (req'[r].answers # req[r].answers /\ req'[r].answers # << >>)
               => /\ req[r].pc = "probe"
                  /\ Len(req'[r].answers) = Len(req[r].answers) + 1
                  /\ \A s \in Servers :
                        s # req[r].i => servers'[s] = servers[s]
                  /\ servers'[req[r].i] = req'[r].wrote[req[r].i]
         ]_vars

\* The call read an empty list, probed both servers and found none.
C27_Witness ==
    \E r \in Reqs :
        /\ req[r].snapshot = {}
        /\ Len(req[r].answers) = NumServers
        /\ req[r].outcome = "RuntimeError"
        /\ \A s \in Servers : req[r].answers[s] = "500"

\* C28: a call cancelled while it awaits a probe of lines 160-164 ends
\* there, cancelled: the cancellation is its last answer, nothing is
\* written for it, and the call makes no further probe and no request.
C28_CancelledProbeStops ==
    \A r \in Reqs :
        (\E k \in 1..Len(req[r].answers) :
            req[r].answers[k] = "CancelledError")
            => /\ req[r].pc = "done"
               /\ req[r].outcome = "cancelled"
               /\ req[r].answers[Len(req[r].answers)] = "CancelledError"


\* C29: the urls of the registry never change, and an entry of the
\* registry changes only in a step that ends a probe, and then only the
\* entry of the server probed: the admission, the debit, the credit, the
\* release and the remote call, failed or not, write no entry.
C29_RegistryFrame ==
    [][/\ urls' = urls
       /\ DOMAIN servers' = DOMAIN servers
       /\ servers' # servers
             => \E j \in Jobs :
                   /\ job[j].pc = "probe"
                   /\ Steps(j)
                   /\ \A s \in Servers :
                         s # job[j].i => servers'[s] = servers[s]
      ]_vars

\* A call was admitted, debited, failed on its remote call, was credited
\* and released, and every server is still marked alive.
C29_Witness ==
    /\ Last.remote = "failed"
    /\ Last.credits = 1
    /\ Last.releases = 1
    /\ \A s \in Servers : servers[s].is_alive
    /\ urls = ServerUrls(ConfiguredUrls)

\* C30: a call whose credit failed (add_money of line 240 raised) ends
\* with that error leaving generate, where on_command_error reports it:
\* the message of _handle_error is not sent in its place, and the
\* requester is not in active_users when the call ends.
C30_CreditFailureRaised ==
    (Last.credit_calls = 1 /\ Last.credits = 0 /\ ~Last.cancelled)
        => /\ Len(Last.reports) = 1
           /\ Last.reports[1] \in {"LedgerError", "KeyError"}
           /\ Last.releases + Last.release_errors = 1
           /\ ~ended.ticket_after

\* The remote call failed, then the credit failed: the call ended with
\* the ledger error, 100 short, and the requester is not in active_users.
C30_Witness ==
    /\ Last.remote = "failed"
    /\ Last.credit_calls = 1
    /\ Last.credits = 0
    /\ Last.net = -generation_cost
    /\ Last.reports = <<"LedgerError">>
    /\ Last.releases = 1
    /\ ended.requester \notin active_users


\* ------------------------------------------------- the TicTacToe engine
OnBoard(row, col) == row \in 0..2 /\ col \in 0..2

\* C34: with difficulty HARD the computer plays minimax moves, and whatever
\* legal moves the human makes from the empty board the game never ends
\* with winner X.
C34_HardNeverLoses ==
    engine.difficulty = "hard" => engine.winner # "X"

\* A HARD game that the human played to the end without losing: a draw
\* on the full board.
C34_Witness ==
    /\ engine.difficulty = "hard"
    /\ move.pc = "returned"
    /\ engine.game_over
    /\ engine.winner = "None"
    /\ is_board_full(engine.board)

\* C35: make_move(row, col) returns False exactly when the game is already
\* over, the cell is off the board or the cell is occupied; then board,
\* current_player, winner and game_over are as before the call, so the
\* computer has not moved either.
C35_RejectedMoves ==
    move.pc = "returned" =>
        /\ ~move.returned <=>
               \/ move.before.game_over
               \/ ~OnBoard(move.row, move.col)
               \/ move.before.board[<<move.row, move.col>>] # " "
        /\ ~move.returned => engine = move.before

\* A call on an occupied cell of a running game returned False.
C35_Witness ==
    /\ move.pc = "returned"
    /\ ~move.returned
    /\ ~move.before.game_over
    /\ OnBoard(move.row, move.col)
    /\ move.before.board[<<move.row, move.col>>] = "O"

\* C36: for every difficulty #X - #O is 0 or 1; while the game is not over
\* #X = #O and it is X's turn; a make_move call that returned True placed
\* one X, and one O unless the X ended the game.
C36_MarkCounts ==
    LET x == Count(engine.board, "X")
        o == Count(engine.board, "O")
        single == make_single_move(move.before, move.row, move.col).engine
    IN  /\ x - o \in {0, 1}
        /\ ~engine.game_over => x = o /\ engine.current_player = "X"
        /\ move.pc = "returned" /\ move.returned =>
               /\ x = Count(move.before.board, "X") + 1
               /\ o = Count(move.before.board, "O")
                        + (IF single.game_over THEN 0 ELSE 1)

\* A human move that did not end the game was answered, and the game goes
\* on.
C36_Witness ==
    /\ move.pc = "returned"
    /\ move.returned
    /\ ~engine.game_over
    /\ Count(engine.board, "O") = 2

\* C37: game_over holds exactly when a player has three in a row or the
\* board is full; winner is the player with the line, None when there is
\* no line; X and O never both have a line.
C37_OutcomeMatchesBoard ==
    LET x_line == check_winner_for(engine.board, "X")
        o_line == check_winner_for(engine.board, "O")
    IN  /\ engine.game_over <=>
               x_line \/ o_line \/ is_board_full(engine.board)
        /\ ~(x_line /\ o_line)
        /\ engine.winner =
               IF x_line THEN "X" ELSE IF o_line THEN "O" ELSE "None"

\* The last free cell completed a line of X: the board is full and X won.
C37_Witness ==
    /\ engine.game_over
    /\ is_board_full(engine.board)
    /\ engine.winner = "X"
    /\ check_winner_for(engine.board, "X")


\* ---------------------------------------------------------------- shutdown
\* C31: after a SIGINT or SIGTERM has been handled the graceful shutdown
\* runs: the task of _shutdown that the handler created reaches
\* bot.close(), so a task of the handler that has ended has called it.
C31_SignalShutdownCloses ==
    \A t \in ShutdownTasks :
        shutdown_tasks[t].pc \in {"returned", "exited"} =>
            shutdown_tasks[t].closed


\* ------------------------------------------------------------ the games cog
\* C32: a player never has two unfinished games at the same time: an
\* invocation of tictactoe by a player with an unfinished game starts no
\* game, and as long as a game is unfinished the entry of its player in
\* active_games is the game: no timeout of an earlier game removes it.
C32_OneUnfinishedGame ==
    /\ \A g \in GameIds :
           Unfinished(g) =>
               /\ active_games[games[g].player] = g
               /\ \A h \in GameIds \ {g} :
                      ~(Unfinished(h) /\ games[h].player = games[g].player)
    /\ last_start.unfinished => last_start.outcome # "started"

\* C33: for every game the reward of its difficulty is paid exactly once
\* if X wins, and never otherwise: neither the money nor the exp is paid
\* twice, nothing is paid for a game that X has not won (the computer
\* won, a draw, still running or expired), and once no callback of a game
\* won by X is still paying, money and exp have each been paid once.
C33_RewardOnce ==
    \A g \in GameIds :
        /\ games[g].money_paid <= 1
        /\ games[g].exp_paid <= 1
        /\ games[g].winner # "X" =>
               games[g].money_paid = 0 /\ games[g].exp_paid = 0
        /\ games[g].winner = "X" /\ ~Paying(g) =>
               games[g].money_paid = 1 /\ games[g].exp_paid = 1


\* -------------------------------------------------------- the economy cog
\* C38: a user's daily reward is granted at most once per cooldown period:
\* whatever the interleaving of daily invocations and clicks on reward
\* buttons, any two rewards credited to a user are at least daily_cooldown
\* apart.
C38_DailyOncePerCooldown ==
    \A u \in Users :
        \A i, j \in DOMAIN awards[u].rewards :
            i < j =>
                awards[u].rewards[j] - awards[u].rewards[i]
                    >= daily_cooldown

\* An operation that awards exp to the user is between its get_user and
\* its end.
AwardingExp(u) ==
    \/ \E m \in Messages :
           /\ messages[m].author = u
           /\ messages[m].pc \notin {"none", "done"}
    \/ \E c \in Claims :
           /\ claims[c].pc \in {"get_user", "update_one", "reload"}
           /\ dailies[claims[c].daily].author = u

\* C39: exp gains are never lost: once the operations that award exp to a
\* user (message gain, daily exp reward) have ended, the stored exp is the
\* initial exp, 0, plus the sum of the gains awarded.
C39_ExpNotLost ==
    \A u \in Users :
        ~AwardingExp(u) => profile[u].exp = awards[u].exp

====
